---- MODULE Spec2Model ----
(***************************************************************************)
(* Model of the passman_cli vault store: the schema migrator               *)
(* (src/database/migrations.rs) and the password repository                *)
(* (src/database/repository.rs) over one SQLite database file.             *)
(*                                                                         *)
(* The durable content of the database file is kept in the variables       *)
(* migrations_table, ledger, schema, vault_metadata and password_entries.  *)
(* PasswordRepository::new is modelled statement by statement, because the *)
(* process can fail or die between any two SQL statements; every other     *)
(* repository method issues one SQL statement and is one action.           *)
(*                                                                         *)
(* Beside the store stand the cipher (src/crypto/encryption.rs) and the    *)
(* password hasher (src/crypto/password.rs), with ChaCha20-Poly1305 and    *)
(* Argon2 taken as ideal, and the vault session that is specified over     *)
(* them. Their state is in sealed, origin, out, vault and session.         *)
(*                                                                         *)
(* Last come a caller that holds a PasswordEntry (src/database/models.rs), *)
(* the password generator (src/utils/generator.rs) and the clipboard       *)
(* manager with its clear threads (src/utils/clipboard.rs), over a clock;  *)
(* their state is in clock, caller, generated, clipboard, threads and      *)
(* process.                                                                *)
(***************************************************************************)
EXTENDS Integers, Sequences, FiniteSets, TLC

VARIABLES
    pc,                \* position of the process inside PasswordRepository::new
    idx,               \* migrate: index of the loop over MIGRATIONS
    current_version,   \* migrate: the local current_version
    tx,                \* apply_migration: the open transaction's view, or NoTx
    migrations_table,  \* durable: the table "migrations" exists
    ledger,            \* durable: versions of the rows of table "migrations"
    schema,            \* durable: names of the tables and indexes created
    vault_metadata,    \* durable: the rows of vault_metadata (at most one)
    password_entries,  \* durable: the rows of password_entries, by rowid
    result,            \* what the last completed call returned to its caller
    run,               \* history of the latest run of new(), kept until the
                       \* repository is used: what the run started from and
                       \* what it did (never read by the program)
    memo,              \* an earlier answer of get_entry_by_title, with the
                       \* rows it was given on (never read by the program)
    sealed,            \* a sealed payload a caller of the cipher holds
    origin,            \* how sealed came about: the key, plaintext and nonce
                       \* of the encrypt call, and what was done to its
                       \* output since (never read by the program)
    out,               \* what the last call of the cipher, of the password
                       \* hasher or of the session returned
    vault,             \* the salt and the password hash kept for the vault
    session,           \* the session: locked, or unlocked and holding a key
    clock,             \* the time, in seconds
    caller,            \* the PasswordEntry a caller of the repository holds
    generated,         \* what the last call of PasswordGenerator::generate
                       \* did: returned, or panicked
    clipboard,         \* the system clipboard: its text, and who put it
                       \* there and when (the latter never read by the program)
    threads,           \* the clear threads asleep: when each may wake
    process            \* the process that uses the clipboard manager

vars == <<pc, idx, current_version, tx, migrations_table, ledger, schema,
          vault_metadata, password_entries, result, run, memo,
          sealed, origin, out, vault, session,
          clock, caller, generated, clipboard, threads, process>>

\* The variables of the store, and those of the cipher, hasher and session.
store_vars == <<pc, idx, current_version, tx, migrations_table, ledger, schema,
                vault_metadata, password_entries, result, run, memo>>

crypto_vars == <<sealed, origin, out, vault, session>>

\* The variables of the caller's entry, the generator and the clipboard.
util_vars == <<clock, caller, generated, clipboard, threads, process>>

durable == <<migrations_table, ledger, schema, vault_metadata, password_entries>>

-----------------------------------------------------------------------------
(* Bounds of the model.                                                    *)

\* Utc::now() is read from the wall clock: any instant in 0..MaxTime.
MaxTime == 1

\* At most MaxEntries rows are kept in password_entries.
MaxEntries == 2

Times == 0..MaxTime

-----------------------------------------------------------------------------
(* The declared migrations.                                                *)

\* One migration, version 1: its batch creates two tables and five indexes,
\* one CREATE statement each, in this order.
MIGRATIONS ==
    << [version |-> 1,
        sql |-> << "vault_metadata", "password_entries",
                   "idx_password_entries_title",
                   "idx_password_entries_username",
                   "idx_password_entries_url",
                   "idx_password_entries_created_at",
                   "idx_password_entries_updated_at" >>] >>

Range(s) == {s[i] : i \in 1..Len(s)}

DeclaredVersions == {MIGRATIONS[i].version : i \in 1..Len(MIGRATIONS)}

AllObjects == UNION {Range(MIGRATIONS[i].sql) : i \in 1..Len(MIGRATIONS)}

MaxOf(S) == CHOOSE m \in S : \A x \in S : x <= m

-----------------------------------------------------------------------------
(* Results and the history of a run.                                       *)

NoTx == [open |-> FALSE, schema |-> {}, ledger |-> {}]

\* No call has returned since the process started or new() was entered.
NoVal == <<>>

NoResult ==
    [op |-> "none", err |-> "none", at |-> "none", version |-> 0,
     arg |-> NoVal, val |-> NoVal]

\* Result of a call: op the method, arg its arguments, err "Ok" or the variant
\* of crate::Error returned, val the value inside Ok. `at` tells an error of
\* the storage ("storage") from a constraint of the schema ("constraint").
Ret(op, arg, err, at, val) ==
    [op |-> op, err |-> err, at |-> at, version |-> 0, arg |-> arg, val |-> val]

\* new() failing at statement `at` while migration `version` was in hand.
NewErr(at, version) ==
    [op |-> "new", err |-> "Database", at |-> at, version |-> version,
     arg |-> NoVal, val |-> NoVal]

NoMemo == [set |-> FALSE, rows |-> {}, title |-> <<>>, val |-> NoVal]

\* ledger, schema: the file when the run began. attempted, applied: the
\* versions apply_migration was called for, and those it committed. faulted:
\* the storage failed under a statement. failed: the version whose
\* execute_batch failed, or 0. died: where the process died, or "none".
NoRun == [ledger |-> {}, schema |-> {}, attempted |-> {}, applied |-> {},
          faulted |-> FALSE, failed |-> 0, died |-> "none"]

-----------------------------------------------------------------------------
(* SQLite statements used by the migrator.                                 *)

\* execute_batch: the CREATE statements run in order from statement k; one
\* fails when its object already exists, or when the storage fails at it
\* (failAt, 0 for never). The statements before the failing one have acted.
RECURSIVE execute_batch(_, _, _, _)
execute_batch(sch, sql, k, failAt) ==
    IF k > Len(sql) THEN [ok |-> TRUE, schema |-> sch]
    ELSE IF k = failAt \/ sql[k] \in sch THEN [ok |-> FALSE, schema |-> sch]
    ELSE execute_batch(sch \cup {sql[k]}, sql, k + 1, failAt)

\* The version apply_migration binds to ?1 of the INSERT into migrations.
LedgerRow_index(migration) == migration.version - 1

LedgerRow(migration) == migration.version

\* A transaction dropped without commit (an early return by `?`, or the
\* process dying) is rolled back: the file keeps what it held before.
Rollback_autocommit(file, view) == [schema |-> view.schema, ledger |-> view.ledger]

Rollback(file, view) == file

\* tx.commit(): the file takes the transaction's view.
Commit(file, view) == [schema |-> view.schema, ledger |-> view.ledger]

\* SELECT MAX(version) FROM migrations, with .unwrap_or(Some(0)).unwrap_or(0):
\* a failed query and an empty table both give 0.
get_current_version(table, led, fault) ==
    IF fault \/ ~table THEN 0
    ELSE IF led = {} THEN 0
    ELSE MaxOf(led)

\* migrate's test `migration.version > current_version`.
IsPending_ge(migration, current) == migration.version >= current

IsPending(migration, current) == migration.version > current

-----------------------------------------------------------------------------
(* PasswordRepository::new, statement by statement.                        *)

File == [schema |-> schema, ledger |-> ledger]

\* new() returns Err from statement `at`: the connection is dropped and the
\* transaction it had open (view) is rolled back; no repository is produced.
FailNew_ignored(at, version, view) ==
    /\ LET f == IF view.open THEN Rollback(File, view) ELSE File IN
         /\ schema' = f.schema
         /\ ledger' = f.ledger
    /\ tx' = NoTx
    /\ pc' = "loop"
    /\ idx' = idx + 1
    /\ UNCHANGED <<current_version, result>>
    /\ UNCHANGED <<migrations_table, vault_metadata, password_entries, memo>>

FailNew(at, version, view) ==
    /\ LET f == IF view.open THEN Rollback(File, view) ELSE File IN
         /\ schema' = f.schema
         /\ ledger' = f.ledger
    /\ tx' = NoTx
    /\ pc' = "closed"
    /\ idx' = 0
    /\ current_version' = 0
    /\ result' = NewErr(at, version)
    /\ UNCHANGED <<migrations_table, vault_metadata, password_entries, memo>>

\* Connection::open and PRAGMA foreign_keys = ON.
NewOpen(fault) ==
    /\ pc = "closed"
    /\ IF fault
       THEN /\ result' = NewErr("open", 0)
            /\ run' = [NoRun EXCEPT !.faulted = TRUE]
            /\ UNCHANGED pc
       ELSE /\ result' = NoResult
            /\ run' = [NoRun EXCEPT !.ledger = ledger, !.schema = schema]
            /\ pc' = "create_table"
    /\ UNCHANGED <<idx, current_version, tx, durable, memo>>
    /\ UNCHANGED crypto_vars
    /\ UNCHANGED util_vars

\* migrate: CREATE TABLE IF NOT EXISTS migrations.
MigrateCreateTable(fault) ==
    /\ pc = "create_table"
    /\ IF fault
       THEN /\ FailNew("create_table", 0, tx)
            /\ run' = [run EXCEPT !.faulted = TRUE]
       ELSE /\ migrations_table' = TRUE
            /\ pc' = "get_version"
            /\ UNCHANGED <<idx, current_version, tx, ledger, schema,
                           vault_metadata, password_entries, result, run, memo>>
    /\ UNCHANGED crypto_vars
    /\ UNCHANGED util_vars

\* migrate: let current_version = self.get_current_version()?
MigrateGetCurrentVersion(fault) ==
    /\ pc = "get_version"
    /\ current_version' = get_current_version(migrations_table, ledger, fault)
    /\ idx' = 1
    /\ pc' = "loop"
    /\ run' = [run EXCEPT !.faulted = @ \/ fault]
    /\ UNCHANGED <<tx, durable, result, memo>>
    /\ UNCHANGED crypto_vars
    /\ UNCHANGED util_vars

\* migrate: one turn of `for migration in MIGRATIONS`, or Ok(()) after the
\* last one, on which new() returns the repository.
MigrateLoop ==
    /\ pc = "loop"
    /\ IF idx > Len(MIGRATIONS)
       THEN /\ pc' = "ready"
            /\ result' = Ret("new", NoVal, "Ok", "none", NoVal)
            /\ idx' = 0
            /\ current_version' = 0
            /\ UNCHANGED run
       ELSE IF IsPending(MIGRATIONS[idx], current_version)
       THEN /\ pc' = "tx_begin"
            /\ run' = [run EXCEPT !.attempted = @ \cup {MIGRATIONS[idx].version}]
            /\ UNCHANGED <<idx, current_version, result>>
       ELSE /\ idx' = idx + 1
            /\ UNCHANGED <<pc, current_version, result, run>>
    /\ UNCHANGED <<tx, durable, memo>>
    /\ UNCHANGED crypto_vars
    /\ UNCHANGED util_vars

\* apply_migration: self.conn.unchecked_transaction()?
ApplyBegin(fault) ==
    /\ pc = "tx_begin"
    /\ IF fault
       THEN /\ FailNew("begin", MIGRATIONS[idx].version, tx)
            /\ run' = [run EXCEPT !.faulted = TRUE]
       ELSE /\ tx' = [open |-> TRUE, schema |-> schema, ledger |-> ledger]
            /\ pc' = "tx_batch"
            /\ UNCHANGED <<idx, current_version, durable, result, run, memo>>
    /\ UNCHANGED crypto_vars
    /\ UNCHANGED util_vars

\* apply_migration: tx.execute_batch(migration.sql)?
ApplyExecuteBatch ==
    /\ pc = "tx_batch"
    /\ \E failAt \in 0..Len(MIGRATIONS[idx].sql) :
         LET r == execute_batch(tx.schema, MIGRATIONS[idx].sql, 1, failAt) IN
           IF r.ok
           THEN /\ tx' = [tx EXCEPT !.schema = r.schema]
                /\ pc' = "tx_record"
                /\ UNCHANGED <<idx, current_version, durable, result, run, memo>>
           ELSE /\ FailNew("execute_batch", MIGRATIONS[idx].version,
                           [tx EXCEPT !.schema = r.schema])
                /\ run' = [run EXCEPT !.faulted = @ \/ failAt # 0,
                                      !.failed = MIGRATIONS[idx].version]
    /\ UNCHANGED crypto_vars
    /\ UNCHANGED util_vars

\* apply_migration: INSERT INTO migrations (version, ...); version is the
\* primary key of the table.
ApplyRecord(fault) ==
    /\ pc = "tx_record"
    /\ LET v == LedgerRow(MIGRATIONS[idx]) IN
         IF fault \/ v \in tx.ledger
         THEN /\ FailNew("record", MIGRATIONS[idx].version, tx)
              /\ run' = [run EXCEPT !.faulted = @ \/ fault]
         ELSE /\ tx' = [tx EXCEPT !.ledger = @ \cup {v}]
              /\ pc' = "tx_commit"
              /\ UNCHANGED <<idx, current_version, durable, result, run, memo>>
    /\ UNCHANGED crypto_vars
    /\ UNCHANGED util_vars

\* apply_migration: tx.commit()?, then the next turn of the loop.
ApplyCommit(fault) ==
    /\ pc = "tx_commit"
    /\ IF fault
       THEN /\ FailNew("commit", MIGRATIONS[idx].version, tx)
            /\ run' = [run EXCEPT !.faulted = TRUE]
       ELSE /\ LET f == Commit(File, tx) IN
                 /\ schema' = f.schema
                 /\ ledger' = f.ledger
            /\ tx' = NoTx
            /\ idx' = idx + 1
            /\ pc' = "loop"
            /\ run' = [run EXCEPT !.applied = @ \cup {MIGRATIONS[idx].version}]
            /\ UNCHANGED <<current_version, migrations_table, vault_metadata,
                           password_entries, result, memo>>
    /\ UNCHANGED crypto_vars
    /\ UNCHANGED util_vars

\* The repository is dropped: the connection closes.
Close ==
    /\ pc = "ready"
    /\ pc' = "closed"
    /\ result' = NoResult
    /\ run' = NoRun
    /\ UNCHANGED <<idx, current_version, tx, durable, memo>>
    /\ UNCHANGED crypto_vars
    /\ UNCHANGED util_vars

\* The process dies at any point of new(): SQLite rolls an open transaction
\* back when the file is next opened.
Crash ==
    /\ pc \notin {"closed", "ready"}
    /\ LET f == IF tx.open THEN Rollback(File, tx) ELSE File IN
         /\ schema' = f.schema
         /\ ledger' = f.ledger
    /\ tx' = NoTx
    /\ pc' = "closed"
    /\ result' = NoResult
    /\ idx' = 0
    /\ current_version' = 0
    /\ run' = [run EXCEPT !.died = pc]
    /\ UNCHANGED <<migrations_table, vault_metadata, password_entries, memo>>
    /\ UNCHANGED crypto_vars
    /\ UNCHANGED util_vars

-----------------------------------------------------------------------------
(* Values at the SQL boundary. A string is a sequence of character codes,  *)
(* a byte string a sequence of bytes; Option<String> is Some(s) or None.   *)

Some(s) == [some |-> TRUE, v |-> s]
None == [some |-> FALSE, v |-> <<>>]

SqlNull == [t |-> "null", v |-> <<>>]
SqlText(s) == [t |-> "text", v |-> s]
SqlBlob(b) == [t |-> "blob", v |-> b]
SqlInt(n) == [t |-> "integer", v |-> <<n>>]

\* ToSql for Option<String>: None binds NULL.
ToSqlOpt_empty_as_null(o) == IF o.some /\ o.v # <<>> THEN SqlText(o.v) ELSE SqlNull

ToSqlOpt(o) == IF o.some THEN SqlText(o.v) ELSE SqlNull

\* row.get::<_, String>, ::<_, Vec<u8>>, ::<_, u32>: another type is an error.
GetString(x) == [ok |-> x.t = "text", v |-> x.v]
GetBlob(x) == [ok |-> x.t = "blob", v |-> x.v]
GetInt(x) == [ok |-> x.t = "integer", v |-> IF x.t = "integer" THEN x.v[1] ELSE 0]

\* row.get::<_, Option<String>>: NULL reads as None.
GetOptString(x) ==
    [ok |-> x.t \in {"null", "text"},
     v |-> IF x.t = "text" THEN Some(x.v) ELSE None]

\* DateTime::to_rfc3339 writes the instant in full; parse_from_rfc3339 reads
\* it back, and rejects a text that is no timestamp. The text of instant t
\* is modelled by the one-character string <<t>>.
to_rfc3339(t) == <<t>>
parse_from_rfc3339(s) ==
    [ok |-> Len(s) = 1, v |-> IF Len(s) = 1 THEN s[1] ELSE 0]

\* Uuid::to_string is the canonical text of the id, Uuid::parse_str its
\* inverse on canonical texts. The text of id u is modelled by <<u>>.
uuid_to_string(u) == <<u>>
uuid_parse_str(s) ==
    [ok |-> Len(s) = 1, v |-> IF Len(s) = 1 THEN s[1] ELSE 0]

-----------------------------------------------------------------------------
(* Vault metadata.                                                         *)

\* The row initialize_vault inserts: id 1, both timestamps now, version 1.
MetadataRow_hash_as_salt(salt, password_hash, now) ==
    [id |-> SqlInt(1),
     created_at |-> SqlText(to_rfc3339(now)),
     last_access |-> SqlText(to_rfc3339(now)),
     schema_version |-> SqlInt(1),
     salt |-> SqlBlob(password_hash),
     password_hash |-> SqlBlob(password_hash)]

MetadataRow(salt, password_hash, now) ==
    [id |-> SqlInt(1),
     created_at |-> SqlText(to_rfc3339(now)),
     last_access |-> SqlText(to_rfc3339(now)),
     schema_version |-> SqlInt(1),
     salt |-> SqlBlob(salt),
     password_hash |-> SqlBlob(password_hash)]

\* INSERT INTO vault_metadata: id is the primary key, so a second row with
\* id 1 violates the constraint and the statement changes nothing.
InsertMetadata_replace(rows, row) ==
    [ok |-> TRUE, rows |-> {r \in rows : r.id # row.id} \cup {row}]

InsertMetadata(rows, row) ==
    IF \E r \in rows : r.id = row.id
    THEN [ok |-> FALSE, rows |-> rows]
    ELSE [ok |-> TRUE, rows |-> rows \cup {row}]

\* initialize_vault: the value returned. Every rusqlite error, the violated
\* constraint included, is converted by `?` to Error::Database.
initialize_vault_err(inserted) == IF inserted THEN "Ok" ELSE "Database"

\* is_initialized: SELECT COUNT(*) ... WHERE id = 1, then count > 0.
is_initialized(rows) == Cardinality({r \in rows : r.id = SqlInt(1)}) > 0

\* get_vault_metadata: the row with id 1 converted to VaultMetadata; no row
\* (QueryReturnedNoRows) or a column that does not convert is Error::Database.
get_vault_metadata(rows) ==
    IF ~\E r \in rows : r.id = SqlInt(1)
    THEN [err |-> "Database", val |-> NoVal]
    ELSE LET r == CHOOSE r \in rows : r.id = SqlInt(1)
             c == parse_from_rfc3339(GetString(r.created_at).v)
             a == parse_from_rfc3339(GetString(r.last_access).v)
             ok == /\ GetString(r.created_at).ok /\ c.ok
                   /\ GetString(r.last_access).ok /\ a.ok
                   /\ GetInt(r.schema_version).ok
                   /\ GetBlob(r.salt).ok /\ GetBlob(r.password_hash).ok
         IN IF ok
            THEN [err |-> "Ok",
                  val |-> [created_at |-> c.v,
                           last_access |-> a.v,
                           schema_version |-> GetInt(r.schema_version).v,
                           salt |-> GetBlob(r.salt).v,
                           password_hash |-> GetBlob(r.password_hash).v]]
            ELSE [err |-> "Database", val |-> NoVal]

\* UPDATE vault_metadata SET last_access = ?1 WHERE id = 1.
update_last_access(rows, now) ==
    {IF r.id = SqlInt(1)
     THEN [r EXCEPT !.last_access = SqlText(to_rfc3339(now))]
     ELSE r : r \in rows}

-----------------------------------------------------------------------------
(* Password entries. The table has a text primary key, so SQLite keeps its  *)
(* rows by an implicit rowid; an inserted row gets the highest rowid. The   *)
(* sequence password_entries lists the rows by rowid ascending, which is    *)
(* the order a SELECT without ORDER BY visits them, through the table or    *)
(* through an index on the column compared.                                 *)

\* The row add_entry binds: entry.password is not among the parameters.
EntryRow(entry, encrypted_password) ==
    [id |-> SqlText(uuid_to_string(entry.id)),
     title |-> SqlText(entry.title),
     username |-> SqlText(entry.username),
     encrypted_password |-> SqlBlob(encrypted_password),
     url |-> ToSqlOpt(entry.url),
     notes |-> ToSqlOpt(entry.notes),
     created_at |-> SqlText(to_rfc3339(entry.created_at)),
     updated_at |-> SqlText(to_rfc3339(entry.updated_at))]

\* INSERT INTO password_entries: id is the primary key.
InsertEntry(rows, row) ==
    IF \E i \in 1..Len(rows) : rows[i].id = row.id
    THEN [ok |-> FALSE, rows |-> rows]
    ELSE [ok |-> TRUE, rows |-> Append(rows, row)]

\* row_to_entry: the password field of the result is the empty string.
row_to_entry(row) ==
    LET id == uuid_parse_str(GetString(row.id).v)
        c == parse_from_rfc3339(GetString(row.created_at).v)
        u == parse_from_rfc3339(GetString(row.updated_at).v)
    IN [ok |-> /\ GetString(row.id).ok /\ id.ok
               /\ GetString(row.created_at).ok /\ c.ok
               /\ GetString(row.updated_at).ok /\ u.ok
               /\ GetString(row.title).ok /\ GetString(row.username).ok
               /\ GetOptString(row.url).ok /\ GetOptString(row.notes).ok,
        v |-> [id |-> id.v,
               title |-> GetString(row.title).v,
               username |-> GetString(row.username).v,
               password |-> <<>>,
               url |-> GetOptString(row.url).v,
               notes |-> GetOptString(row.notes).v,
               created_at |-> c.v,
               updated_at |-> u.v]]

row_to_entry_with_encrypted_password(row) ==
    LET e == row_to_entry(row)
        p == GetBlob(row.encrypted_password)
    IN [ok |-> e.ok /\ p.ok,
        v |-> [entry |-> e.v, encrypted_password |-> p.v]]

\* query_row: the first row the SELECT yields, converted; no row is
\* QueryReturnedNoRows, which both getters map to EntryNotFound.
QueryRow(matching) ==
    IF matching = <<>>
    THEN [err |-> "EntryNotFound", val |-> NoVal]
    ELSE LET r == row_to_entry_with_encrypted_password(Head(matching))
         IN IF r.ok THEN [err |-> "Ok", val |-> r.v]
                    ELSE [err |-> "Database", val |-> NoVal]

\* SELECT ... FROM password_entries WHERE id = ?1.
get_entry_by_id(rows, id) ==
    QueryRow(SelectSeq(rows, LAMBDA r : r.id = SqlText(uuid_to_string(id))))

\* SELECT ... FROM password_entries WHERE title = ?1.
get_entry_by_title(rows, title) ==
    QueryRow(SelectSeq(rows, LAMBDA r : r.title = SqlText(title)))

\* UPDATE password_entries SET title, username, encrypted_password, url,
\* notes, updated_at WHERE id = ?7: id and created_at keep their values.
UpdateRow_created(row, entry, encrypted_password) ==
    [row EXCEPT !.title = SqlText(entry.title),
                !.username = SqlText(entry.username),
                !.encrypted_password = SqlBlob(encrypted_password),
                !.url = ToSqlOpt(entry.url),
                !.notes = ToSqlOpt(entry.notes),
                !.created_at = SqlText(to_rfc3339(entry.created_at)),
                !.updated_at = SqlText(to_rfc3339(entry.updated_at))]

UpdateRow(row, entry, encrypted_password) ==
    [row EXCEPT !.title = SqlText(entry.title),
                !.username = SqlText(entry.username),
                !.encrypted_password = SqlBlob(encrypted_password),
                !.url = ToSqlOpt(entry.url),
                !.notes = ToSqlOpt(entry.notes),
                !.updated_at = SqlText(to_rfc3339(entry.updated_at))]

\* update_entry: the rows after the UPDATE and the number of rows it changed.
update_entry(rows, entry, encrypted_password) ==
    LET hit(r) == r.id = SqlText(uuid_to_string(entry.id))
    IN [rows |-> [i \in 1..Len(rows) |->
                    IF hit(rows[i])
                    THEN UpdateRow(rows[i], entry, encrypted_password)
                    ELSE rows[i]],
        updated |-> Cardinality({i \in 1..Len(rows) : hit(rows[i])})]

\* DELETE FROM password_entries WHERE id = ?1.
delete_entry(rows, id) ==
    LET keep == SelectSeq(rows, LAMBDA r : r.id # SqlText(uuid_to_string(id)))
    IN [rows |-> keep, deleted |-> Len(rows) - Len(keep)]

\* DELETE FROM password_entries WHERE title = ?1.
delete_entry_by_title(rows, title) ==
    LET keep == SelectSeq(rows, LAMBDA r : r.title # SqlText(title))
    IN [rows |-> keep, deleted |-> Len(rows) - Len(keep)]

\* ORDER BY title: TEXT under the BINARY collation compares byte by byte,
\* and a proper prefix sorts first.
RECURSIVE TextLess(_, _)
TextLess(a, b) ==
    IF b = <<>> THEN FALSE
    ELSE IF a = <<>> THEN TRUE
    ELSE IF Head(a) # Head(b) THEN Head(a) < Head(b)
    ELSE TextLess(Tail(a), Tail(b))

\* One row put in its place among rows already in order; rows of equal
\* title stay in rowid order.
RECURSIVE InsertByTitle(_, _)
InsertByTitle(sorted, row) ==
    IF sorted = <<>> THEN <<row>>
    ELSE IF TextLess(row.title.v, Head(sorted).title.v)
         THEN <<row>> \o sorted
         ELSE <<Head(sorted)>> \o InsertByTitle(Tail(sorted), row)

RECURSIVE OrderByTitle(_)
OrderByTitle(rows) ==
    IF rows = <<>> THEN <<>>
    ELSE InsertByTitle(OrderByTitle(SubSeq(rows, 1, Len(rows) - 1)),
                       rows[Len(rows)])

\* query_map(row_to_entry) collected: one row that does not convert fails
\* the whole call.
QueryMap(selected) ==
    IF \A i \in 1..Len(selected) : row_to_entry(selected[i]).ok
    THEN [err |-> "Ok",
          val |-> [i \in 1..Len(selected) |-> row_to_entry(selected[i]).v]]
    ELSE [err |-> "Database", val |-> NoVal]

\* list_entries without the ORDER BY.
list_entries_unordered(rows) == QueryMap(rows)

\* SELECT ... FROM password_entries ORDER BY title.
list_entries(rows) == QueryMap(OrderByTitle(rows))

\* The characters LIKE gives a meaning to: '%' and '_'.
Percent == 37
Underscore == 95

\* LIKE compares the ASCII letters without regard to case.
Fold(c) == IF c \in 65..90 THEN c + 32 ELSE c

\* text LIKE pattern, with no ESCAPE: '%' stands for any run of characters,
\* '_' for any one character, any other character for itself.
RECURSIVE Like(_, _)
Like(pattern, text) ==
    IF pattern = <<>> THEN text = <<>>
    ELSE IF Head(pattern) = Percent
         THEN \/ Like(Tail(pattern), text)
              \/ text # <<>> /\ Like(pattern, Tail(text))
    ELSE IF Head(pattern) = Underscore
         THEN text # <<>> /\ Like(Tail(pattern), Tail(text))
    ELSE /\ text # <<>>
         /\ Fold(Head(pattern)) = Fold(Head(text))
         /\ Like(Tail(pattern), Tail(text))

\* column LIKE ?1 in a WHERE clause: NULL LIKE ?1 is NULL, which selects
\* no row.
LikeColumn(x, pattern) == x.t = "text" /\ Like(pattern, x.v)

\* format!("%{}%", query)
search_pattern(query) == <<Percent>> \o query \o <<Percent>>

\* SELECT ... WHERE e.title LIKE ?1 OR e.username LIKE ?1 OR e.url LIKE ?1
\* OR e.notes LIKE ?1 ORDER BY e.title.
search_entries(rows, query) ==
    LET pattern == search_pattern(query)
    IN QueryMap(OrderByTitle(SelectSeq(rows, LAMBDA r :
           \/ LikeColumn(r.title, pattern)
           \/ LikeColumn(r.username, pattern)
           \/ LikeColumn(r.url, pattern)
           \/ LikeColumn(r.notes, pattern))))

-----------------------------------------------------------------------------
(* The repository's methods, each one SQL statement. `fault` is a failure  *)
(* of the storage under the statement: rusqlite returns an error that `?`  *)
(* or map_err converts to Error::Database, and the file is not changed.    *)
(* A result keeps the arguments of a call that changed the file, and the   *)
(* key of a lookup, of a delete and of an update that found no row.        *)

StorageError(op) == Ret(op, NoVal, "Database", "storage", NoVal)

InitializeVault(salt, password_hash, now, fault) ==
    /\ pc = "ready"
    /\ LET arg == [salt |-> salt, password_hash |-> password_hash, now |-> now]
           r == InsertMetadata(vault_metadata,
                               MetadataRow(salt, password_hash, now))
       IN IF fault
          THEN /\ result' = StorageError("initialize_vault")
               /\ UNCHANGED vault_metadata
          ELSE /\ vault_metadata' = r.rows
               /\ result' = Ret("initialize_vault",
                                IF r.ok THEN arg ELSE NoVal,
                                initialize_vault_err(r.ok),
                                IF r.ok THEN "none" ELSE "constraint", NoVal)
    /\ UNCHANGED <<pc, idx, current_version, tx, migrations_table, ledger,
                   schema, password_entries, memo>>
    /\ run' = NoRun
    /\ UNCHANGED crypto_vars
    /\ UNCHANGED util_vars

IsInitialized(fault) ==
    /\ pc = "ready"
    /\ result' = IF fault THEN StorageError("is_initialized")
                 ELSE Ret("is_initialized", NoVal, "Ok", "none",
                          is_initialized(vault_metadata))
    /\ UNCHANGED <<pc, idx, current_version, tx, durable, memo>>
    /\ run' = NoRun
    /\ UNCHANGED crypto_vars
    /\ UNCHANGED util_vars

GetVaultMetadata(fault) ==
    /\ pc = "ready"
    /\ result' = IF fault THEN StorageError("get_vault_metadata")
                 ELSE LET r == get_vault_metadata(vault_metadata)
                      IN Ret("get_vault_metadata", NoVal, r.err, "none", r.val)
    /\ UNCHANGED <<pc, idx, current_version, tx, durable, memo>>
    /\ run' = NoRun
    /\ UNCHANGED crypto_vars
    /\ UNCHANGED util_vars

\* update_last_access returns Ok(()) whatever the number of rows updated.
UpdateLastAccess(now, fault) ==
    /\ pc = "ready"
    /\ IF fault
       THEN /\ result' = StorageError("update_last_access")
            /\ UNCHANGED vault_metadata
       ELSE /\ vault_metadata' = update_last_access(vault_metadata, now)
            /\ result' = Ret("update_last_access", now, "Ok", "none", NoVal)
    /\ UNCHANGED <<pc, idx, current_version, tx, migrations_table, ledger,
                   schema, password_entries, memo>>
    /\ run' = NoRun
    /\ UNCHANGED crypto_vars
    /\ UNCHANGED util_vars

AddEntry(entry, encrypted_password, fault) ==
    /\ pc = "ready"
    /\ LET arg == [entry |-> entry, encrypted_password |-> encrypted_password]
           r == InsertEntry(password_entries,
                            EntryRow(entry, encrypted_password))
       IN IF fault
          THEN /\ result' = StorageError("add_entry")
               /\ UNCHANGED password_entries
          ELSE /\ password_entries' = r.rows
               /\ result' = Ret("add_entry", IF r.ok THEN arg ELSE NoVal,
                                IF r.ok THEN "Ok" ELSE "Database",
                                IF r.ok THEN "none" ELSE "constraint", NoVal)
    /\ UNCHANGED <<pc, idx, current_version, tx, migrations_table, ledger,
                   schema, vault_metadata, memo>>
    /\ run' = NoRun
    /\ UNCHANGED crypto_vars
    /\ UNCHANGED util_vars

GetEntryById(id, fault) ==
    /\ pc = "ready"
    /\ result' = IF fault THEN StorageError("get_entry_by_id")
                 ELSE LET r == get_entry_by_id(password_entries, id)
                      IN Ret("get_entry_by_id", id, r.err, "none", r.val)
    /\ UNCHANGED <<pc, idx, current_version, tx, durable, memo>>
    /\ run' = NoRun
    /\ UNCHANGED crypto_vars
    /\ UNCHANGED util_vars

\* `remember` only decides whether the answer is kept in memo.
GetEntryByTitle(title, fault, remember) ==
    /\ pc = "ready"
    /\ LET r == get_entry_by_title(password_entries, title)
       IN /\ result' = IF fault THEN StorageError("get_entry_by_title")
                       ELSE Ret("get_entry_by_title", title, r.err, "none", r.val)
          /\ memo' = IF remember /\ ~fault /\ r.err = "Ok"
                     THEN [set |-> TRUE, rows |-> Range(password_entries),
                           title |-> title, val |-> r.val]
                     ELSE memo
    /\ UNCHANGED <<pc, idx, current_version, tx, durable>>
    /\ run' = NoRun
    /\ UNCHANGED crypto_vars
    /\ UNCHANGED util_vars

UpdateEntry(entry, encrypted_password, fault) ==
    /\ pc = "ready"
    /\ LET arg == [entry |-> entry, encrypted_password |-> encrypted_password]
           r == update_entry(password_entries, entry, encrypted_password)
       IN IF fault
          THEN /\ result' = StorageError("update_entry")
               /\ UNCHANGED password_entries
          ELSE /\ password_entries' = r.rows
               /\ result' = Ret("update_entry",
                                IF r.updated = 0 THEN entry.id ELSE arg,
                                IF r.updated = 0 THEN "EntryNotFound" ELSE "Ok",
                                "none", NoVal)
    /\ UNCHANGED <<pc, idx, current_version, tx, migrations_table, ledger,
                   schema, vault_metadata, memo>>
    /\ run' = NoRun
    /\ UNCHANGED crypto_vars
    /\ UNCHANGED util_vars

\* delete_entry without the test of the number of rows deleted.
DeleteEntry_unchecked(id, fault) ==
    /\ pc = "ready"
    /\ LET r == delete_entry(password_entries, id)
       IN IF fault
          THEN /\ result' = StorageError("delete_entry")
               /\ UNCHANGED password_entries
          ELSE /\ password_entries' = r.rows
               /\ result' = Ret("delete_entry", id, "Ok", "none", NoVal)
    /\ UNCHANGED <<pc, idx, current_version, tx, migrations_table, ledger,
                   schema, vault_metadata, memo>>
    /\ run' = NoRun
    /\ UNCHANGED crypto_vars
    /\ UNCHANGED util_vars

DeleteEntry(id, fault) ==
    /\ pc = "ready"
    /\ LET r == delete_entry(password_entries, id)
       IN IF fault
          THEN /\ result' = StorageError("delete_entry")
               /\ UNCHANGED password_entries
          ELSE /\ password_entries' = r.rows
               /\ result' = Ret("delete_entry", id,
                                IF r.deleted = 0 THEN "EntryNotFound" ELSE "Ok",
                                "none", NoVal)
    /\ UNCHANGED <<pc, idx, current_version, tx, migrations_table, ledger,
                   schema, vault_metadata, memo>>
    /\ run' = NoRun
    /\ UNCHANGED crypto_vars
    /\ UNCHANGED util_vars

DeleteEntryByTitle(title, fault) ==
    /\ pc = "ready"
    /\ LET r == delete_entry_by_title(password_entries, title)
       IN IF fault
          THEN /\ result' = StorageError("delete_entry_by_title")
               /\ UNCHANGED password_entries
          ELSE /\ password_entries' = r.rows
               /\ result' = Ret("delete_entry_by_title", title,
                                IF r.deleted = 0 THEN "EntryNotFound" ELSE "Ok",
                                "none", NoVal)
    /\ UNCHANGED <<pc, idx, current_version, tx, migrations_table, ledger,
                   schema, vault_metadata, memo>>
    /\ run' = NoRun
    /\ UNCHANGED crypto_vars
    /\ UNCHANGED util_vars

ListEntries(fault) ==
    /\ pc = "ready"
    /\ result' = IF fault THEN StorageError("list_entries")
                 ELSE LET r == list_entries(password_entries)
                      IN Ret("list_entries", NoVal, r.err, "none", r.val)
    /\ UNCHANGED <<pc, idx, current_version, tx, durable, memo>>
    /\ run' = NoRun
    /\ UNCHANGED crypto_vars
    /\ UNCHANGED util_vars

SearchEntries(query, fault) ==
    /\ pc = "ready"
    /\ result' = IF fault THEN StorageError("search_entries")
                 ELSE LET r == search_entries(password_entries, query)
                      IN Ret("search_entries", query, r.err, "none", r.val)
    /\ UNCHANGED <<pc, idx, current_version, tx, durable, memo>>
    /\ run' = NoRun
    /\ UNCHANGED crypto_vars
    /\ UNCHANGED util_vars

-----------------------------------------------------------------------------
(* Inputs of the calls.                                                    *)

\* Uuid::new_v4() draws the ids: MaxEntries of them.
Uuids == 1..MaxEntries

Salts == {<<>>, <<1, 2, 3, 4>>}
Hashes == {<<5, 6, 7, 8>>, <<9>>}

\* A PasswordEntry as a caller holds it, password included.
Entry(id, title, username, url, notes, created_at, updated_at) ==
    [id |-> id, title |-> title, username |-> username, password |-> <<42>>,
     url |-> url, notes |-> notes,
     created_at |-> created_at, updated_at |-> updated_at]

\* The (entry, ciphertext) pairs passed to add_entry and update_entry: two
\* with the same title, one with an empty url, the ciphertexts all different.
GitHub(id) ==
    [entry |-> Entry(id, <<1>>, <<1>>, None, None, 0, 0),
     encrypted_password |-> <<7>>]

GitHubWork(id) ==
    [entry |-> Entry(id, <<1>>, <<2>>, Some(<<3>>), Some(<<4>>), 0, MaxTime),
     encrypted_password |-> <<8, 8>>]

Mail(id) ==
    [entry |-> Entry(id, <<2>>, <<1>>, Some(<<>>), None, MaxTime, MaxTime),
     encrypted_password |-> <<>>]

AllInputs == UNION {{GitHub(id), GitHubWork(id), Mail(id)} : id \in Uuids}
FewInputs == {Mail(1)} \cup {GitHub(id) : id \in Uuids}
SameTitleInputs == UNION {{GitHub(id), GitHubWork(id)} : id \in Uuids}

TitlesOf(inputs) == {x.entry.title : x \in inputs}

\* PasswordEntry::new: a fresh id, both timestamps the current time, and the
\* fields as given, whatever they are.
PasswordEntry_new(id, title, username, password, url, notes, now) ==
    [id |-> id, title |-> title, username |-> username, password |-> password,
     url |-> url, notes |-> notes, created_at |-> now, updated_at |-> now]

\* Entries to search among: "ab" of user "A", and "a_b" with url "%" and
\* empty notes.
Plain(id) ==
    [entry |-> PasswordEntry_new(id, <<97, 98>>, <<65>>, <<42>>, None, None, 0),
     encrypted_password |-> <<7>>]

Under(id) ==
    [entry |-> PasswordEntry_new(id, <<97, 95, 98>>, <<>>, <<42>>,
                                 Some(<<37>>), Some(<<>>), 0),
     encrypted_password |-> <<8, 8>>]

SearchInputs == UNION {{Plain(id), Under(id)} : id \in Uuids}

\* An entry made with the empty title, and entries to put beside it.
Untitled(id) ==
    [entry |-> PasswordEntry_new(id, <<>>, <<98>>, <<42>>, None, None, 0),
     encrypted_password |-> <<9>>]

TitleInputs == UNION {{Plain(id), Untitled(id)} : id \in Uuids}

\* Queries: "", "a", "B", "ab", "a_b", "_", "%", "c".
SearchQueries ==
    {<<>>, <<97>>, <<66>>, <<97, 98>>, <<97, 95, 98>>, <<95>>, <<37>>, <<99>>}

\* Queries on the entries of AllInputs, whose characters are 1..4.
AllQueries == {<<>>, <<1>>, <<2>>, <<3>>}
FewQueries == {<<>>, <<1>>}

-----------------------------------------------------------------------------
(* The cipher (src/crypto/encryption.rs). A key and a plaintext are        *)
(* sequences of bytes 0..255. ChaCha20-Poly1305 is taken as an ideal AEAD: *)
(* byte i of its output is a term of the key, the nonce and the plaintext  *)
(* it was computed from, two terms are the same byte only when they are    *)
(* the same term with the same bits flipped, and opening succeeds exactly  *)
(* on the output of sealing under the same key and nonce.                  *)

KeyLen == 32
NonceLen == 12
TagLen == 16

\* A byte of a payload: a given value (at), or byte `at` of the ciphertext
\* or of the tag computed from `of`, with the bits of `flip` inverted.
Raw(v) == [kind |-> "raw", of |-> <<>>, at |-> v, flip |-> {}]

RawBytes(bytes) == [i \in 1..Len(bytes) |-> Raw(bytes[i])]

\* ChaCha20: byte i of the ciphertext comes of the key, the nonce, i and
\* byte i of the plaintext.
CtByte(key, nonce, plaintext, i) ==
    [kind |-> "ct", of |-> <<key, nonce, <<plaintext[i]>>>>, at |-> i,
     flip |-> {}]

\* Poly1305: the tag comes of the key, the nonce and the whole ciphertext.
TagByte(key, nonce, plaintext, j) ==
    [kind |-> "tag", of |-> <<key, nonce, plaintext>>, at |-> j, flip |-> {}]

\* cipher.encrypt(&nonce, plaintext): the ciphertext, then the tag.
aead_encrypt(key, nonce, plaintext) ==
    [i \in 1..(Len(plaintext) + TagLen) |->
        IF i <= Len(plaintext) THEN CtByte(key, nonce, plaintext, i)
        ELSE TagByte(key, nonce, plaintext, i - Len(plaintext))]

\* cipher.decrypt(nonce, data): the plaintext when data is what sealing it
\* under this key and nonce gives, an error otherwise.
aead_decrypt(key, nonce, data) ==
    LET n == Len(data) - TagLen
        plaintext == [i \in 1..n |-> data[i].of[3][1]]
    IN IF /\ n >= 0
          /\ \A i \in 1..n : data[i].kind = "ct"
          /\ data = aead_encrypt(key, nonce, plaintext)
       THEN [ok |-> TRUE, v |-> plaintext]
       ELSE [ok |-> FALSE, v |-> <<>>]

\* Nonce::from_slice: the values of the twelve bytes.
NonceOf(bytes) == [i \in 1..Len(bytes) |-> bytes[i].at]

CryptoErr(at) == [err |-> "Crypto", at |-> at, val |-> <<>>]

\* encrypt without the test of the key's length.
encrypt_any_key(key, plaintext, nonce) ==
    [err |-> "Ok", at |-> "none",
     val |-> RawBytes(nonce) \o aead_encrypt(key, nonce, plaintext)]

\* EncryptionManager::encrypt, with the nonce generate_nonce draws.
encrypt(key, plaintext, nonce) ==
    IF Len(key) # KeyLen THEN CryptoErr("key")
    ELSE [err |-> "Ok", at |-> "none",
          val |-> RawBytes(nonce) \o aead_encrypt(key, nonce, plaintext)]

\* decrypt with the payload split one byte early.
decrypt_split_short(key, ciphertext) ==
    IF Len(key) # KeyLen THEN CryptoErr("key")
    ELSE IF Len(ciphertext) < NonceLen THEN CryptoErr("short")
    ELSE LET nonce_bytes == SubSeq(ciphertext, 1, NonceLen - 1)
             encrypted_data == SubSeq(ciphertext, NonceLen, Len(ciphertext))
             r == aead_decrypt(key, NonceOf(nonce_bytes), encrypted_data)
         IN IF r.ok THEN [err |-> "Ok", at |-> "none", val |-> r.v]
                    ELSE CryptoErr("aead")

\* decrypt with the cipher's error replaced by an empty plaintext.
decrypt_unwrap_or_default(key, ciphertext) ==
    IF Len(key) # KeyLen THEN CryptoErr("key")
    ELSE IF Len(ciphertext) < NonceLen THEN CryptoErr("short")
    ELSE LET nonce_bytes == SubSeq(ciphertext, 1, NonceLen)
             encrypted_data == SubSeq(ciphertext, NonceLen + 1, Len(ciphertext))
             r == aead_decrypt(key, NonceOf(nonce_bytes), encrypted_data)
         IN [err |-> "Ok", at |-> "none", val |-> r.v]

\* EncryptionManager::decrypt.
decrypt(key, ciphertext) ==
    IF Len(key) # KeyLen THEN CryptoErr("key")
    ELSE IF Len(ciphertext) < NonceLen THEN CryptoErr("short")
    ELSE LET nonce_bytes == SubSeq(ciphertext, 1, NonceLen)
             encrypted_data == SubSeq(ciphertext, NonceLen + 1, Len(ciphertext))
             r == aead_decrypt(key, NonceOf(nonce_bytes), encrypted_data)
         IN IF r.ok THEN [err |-> "Ok", at |-> "none", val |-> r.v]
                    ELSE CryptoErr("aead")

\* One bit of a byte inverted.
ToggleBit(v, bit) ==
    IF (v \div (2 ^ bit)) % 2 = 1 THEN v - 2 ^ bit ELSE v + 2 ^ bit

FlipBit(b, bit) ==
    IF b.kind = "raw" THEN [b EXCEPT !.at = ToggleBit(@, bit)]
    ELSE [b EXCEPT !.flip = IF bit \in @ THEN @ \ {bit} ELSE @ \cup {bit}]

\* No payload held, and nothing said of it.
NoOrigin == [key |-> <<>>, plaintext |-> <<>>, nonce |-> <<>>, by |-> "none",
             made |-> FALSE, flipped |-> FALSE, cut |-> FALSE]

\* No call has returned yet.
NoOut == [op |-> "none", err |-> "Ok", at |-> "none", arg |-> <<>>, val |-> <<>>]

\* No vault has been initialized.
\* master is the password the vault was made with (never read by the program).
NoVault == [set |-> FALSE, salt |-> <<>>, password_hash |-> <<>>,
            master |-> <<>>]

\* The session before any unlock.
Locked == [state |-> "Locked", key |-> <<>>]

\* Nothing has been encrypted or hashed, and the session is locked.
CryptoInit ==
    /\ sealed = <<>>
    /\ origin = NoOrigin
    /\ out = NoOut
    /\ vault = NoVault
    /\ session = Locked

\* EncryptionManager::encrypt; the caller keeps the payload it returns.
Encrypt(key, plaintext, nonce) ==
    /\ LET r == encrypt(key, plaintext, nonce) IN
         /\ out' = [op |-> "encrypt", err |-> r.err, at |-> r.at,
                    arg |-> key, val |-> r.val]
         /\ IF r.err = "Ok"
            THEN /\ sealed' = r.val
                 /\ origin' = [key |-> key, plaintext |-> plaintext,
                               nonce |-> nonce, by |-> "encrypt",
                               made |-> TRUE, flipped |-> FALSE, cut |-> FALSE]
            ELSE UNCHANGED <<sealed, origin>>
    /\ UNCHANGED <<vault, session>>
    /\ UNCHANGED store_vars
    /\ UNCHANGED util_vars

\* EncryptionManager::decrypt of the payload the caller holds.
Decrypt(key) ==
    /\ origin.by # "SecureData"
    /\ LET r == decrypt(key, sealed) IN
         out' = [op |-> "decrypt", err |-> r.err, at |-> r.at,
                 arg |-> key, val |-> r.val]
    /\ UNCHANGED <<sealed, origin, vault, session>>
    /\ UNCHANGED store_vars
    /\ UNCHANGED util_vars

\* SecureData::new: encrypted_data is what encrypt returns, and is private
\* to the SecureData.
SecureDataNew(plaintext, key, nonce) ==
    /\ LET r == encrypt(key, plaintext, nonce) IN
         /\ out' = [op |-> "SecureData::new", err |-> r.err, at |-> r.at,
                    arg |-> key, val |-> <<>>]
         /\ IF r.err = "Ok"
            THEN /\ sealed' = r.val
                 /\ origin' = [key |-> key, plaintext |-> plaintext,
                               nonce |-> nonce, by |-> "SecureData",
                               made |-> TRUE, flipped |-> FALSE, cut |-> FALSE]
            ELSE UNCHANGED <<sealed, origin>>
    /\ UNCHANGED <<vault, session>>
    /\ UNCHANGED store_vars
    /\ UNCHANGED util_vars

\* SecureData::decrypt: decrypt of encrypted_data.
SecureDataDecrypt(key) ==
    /\ origin.by = "SecureData"
    /\ LET r == decrypt(key, sealed) IN
         out' = [op |-> "SecureData::decrypt", err |-> r.err, at |-> r.at,
                 arg |-> key, val |-> r.val]
    /\ UNCHANGED <<sealed, origin, vault, session>>
    /\ UNCHANGED store_vars
    /\ UNCHANGED util_vars

\* Someone inverts one bit of the payload, once; what the caller was
\* last returned is then of no account.
Tamper(i, bit) ==
    /\ origin.by = "encrypt" /\ ~origin.flipped /\ ~origin.cut
    /\ i \in 1..Len(sealed)
    /\ sealed' = [sealed EXCEPT ![i] = FlipBit(@, bit)]
    /\ origin' = [origin EXCEPT !.flipped = TRUE]
    /\ out' = NoOut
    /\ UNCHANGED <<vault, session>>
    /\ UNCHANGED store_vars
    /\ UNCHANGED util_vars

\* Someone keeps only the first n bytes of the payload.
Truncate(n) ==
    /\ origin.by = "encrypt" /\ ~origin.flipped
    /\ n < Len(sealed)
    /\ sealed' = SubSeq(sealed, 1, n)
    /\ origin' = [origin EXCEPT !.cut = TRUE]
    /\ out' = NoOut
    /\ UNCHANGED <<vault, session>>
    /\ UNCHANGED store_vars
    /\ UNCHANGED util_vars

\* Keys: two of 32 bytes that differ in one bit, and keys of 31 and 33
\* bytes.
KeyOf(len, b) == [i \in 1..len |-> b]

GoodKeys == {KeyOf(KeyLen, 1), [KeyOf(KeyLen, 1) EXCEPT ![KeyLen] = 0]}
BadKeys == {KeyOf(KeyLen - 1, 1), KeyOf(KeyLen + 1, 1)}
Keys == GoodKeys \cup BadKeys

Plaintexts == {<<>>, <<255, 1>>}

\* generate_nonce: twelve random bytes.
Nonces == {KeyOf(NonceLen, 0), [i \in 1..NonceLen |-> 20 * i]}

\* Lengths a payload is cut to.
Cuts == {0, NonceLen - 1, NonceLen, NonceLen + TagLen}

Bits == 0..7

\* The longest payload: nonce, two bytes of ciphertext, tag.
Positions == 1..(NonceLen + 2 + TagLen)

CipherCalls ==
    \/ \E key \in Keys, plaintext \in Plaintexts, nonce \in Nonces :
          Encrypt(key, plaintext, nonce)
    \/ \E key \in Keys : Decrypt(key)
    \/ \E key \in Keys, plaintext \in Plaintexts, nonce \in Nonces :
          SecureDataNew(plaintext, key, nonce)
    \/ \E key \in Keys : SecureDataDecrypt(key)
    \/ \E i \in Positions, bit \in Bits : Tamper(i, bit)
    \/ \E n \in Cuts : Truncate(n)

-----------------------------------------------------------------------------
(* The password hasher (src/crypto/password.rs). A password is a sequence  *)
(* of character codes. Argon2 is taken as an ideal hash: its output is a   *)
(* term of the password and the salt, and two outputs are equal only when  *)
(* they come of the same password and salt. An encoded hash ("$argon2id$   *)
(* v=19$m=19456,t=2,p=1$salt$hash") is the sequence of its '$'-separated   *)
(* fields.                                                                 *)

\* Argon2::default(): Argon2id, version 19, output of 32 bytes.
Argon2OutputLen == 32

\* The bounds on a salt: Argon2 takes no salt of fewer than 8 bytes, and a
\* salt string has 4 to 64 characters.
MinSaltLen == 8
MinSaltChars == 4
MaxSaltChars == 64

\* The hash output Argon2 computes from a password and a salt string.
Argon2Output(password, salt) ==
    [argon2 |-> <<password, salt>>, len |-> Argon2OutputLen]

\* Base64 without padding: character c (from 0) is the six bits from bit
\* 6c of the bytes, written with A-Z, a-z, 0-9, '+' and '/'.
Sextet(bytes, c) ==
    LET b == (6 * c) \div 8
        o == (6 * c) % 8
        hi == bytes[b + 1]
        lo == IF b + 2 <= Len(bytes) THEN bytes[b + 2] ELSE 0
    IN ((hi * 256 + lo) \div (2 ^ (10 - o))) % 64

B64Char(x) ==
    IF x < 26 THEN 65 + x
    ELSE IF x < 52 THEN 97 + (x - 26)
    ELSE IF x < 62 THEN 48 + (x - 52)
    ELSE IF x = 62 THEN 43
    ELSE 47

B64(bytes) ==
    [i \in 1..((8 * Len(bytes) + 5) \div 6) |-> B64Char(Sextet(bytes, i - 1))]

\* SaltString::encode_b64: the encoding, when its length is allowed.
encode_b64(bytes) ==
    [ok |-> Len(B64(bytes)) \in MinSaltChars..MaxSaltChars, v |-> B64(bytes)]

\* PasswordHash::to_string.
PasswordHash_to_string(salt, output) ==
    <<"argon2id", "v=19", "m=19456,t=2,p=1", salt, output>>

\* PasswordManager::hash_password, with the salt string SaltString::generate
\* draws; salt.as_str().as_bytes() is the characters of the salt string.
hash_password(password, salt) ==
    [err |-> "Ok", at |-> "none",
     val |-> [password_hash |->
                  PasswordHash_to_string(salt, Argon2Output(password, salt)),
              salt |-> salt]]

\* The algorithms Argon2 verifies.
Argon2Idents == {"argon2d", "argon2i", "argon2id"}

\* PasswordHash::new: the text must be fields after '$', the first an
\* identifier; the salt and the hash may be missing.
PasswordHash_new(hash) ==
    [ok |-> Len(hash) \in 3..5 /\ hash[1] \in Argon2Idents \cup {"scrypt"},
     algorithm |-> IF Len(hash) >= 1 THEN hash[1] ELSE "",
     salt |-> IF Len(hash) >= 4 THEN Some(hash[4]) ELSE None,
     hash |-> IF Len(hash) >= 5 THEN Some(hash[5]) ELSE None]

\* argon2.verify_password: the hash is computed again from the password and
\* the salt of the parsed hash, and compared with its output.
argon2_verify_password(password, parsed) ==
    IF ~(parsed.salt.some /\ parsed.hash.some) THEN "Password"
    ELSE IF parsed.algorithm \notin Argon2Idents THEN "Algorithm"
    ELSE IF Argon2Output(password, parsed.salt.v) = parsed.hash.v
         THEN "Ok"
         ELSE "Password"

\* verify_password with every error of the verifier returned as an error.
verify_password_strict(password, hash) ==
    LET parsed == PasswordHash_new(hash)
        v == argon2_verify_password(password, parsed)
    IN IF ~parsed.ok THEN [err |-> "Crypto", at |-> "parse", val |-> FALSE]
       ELSE IF v = "Ok" THEN [err |-> "Ok", at |-> "none", val |-> TRUE]
       ELSE [err |-> "Crypto", at |-> "verify", val |-> FALSE]

\* PasswordManager::verify_password.
verify_password(password, hash) ==
    LET parsed == PasswordHash_new(hash)
        v == argon2_verify_password(password, parsed)
    IN IF ~parsed.ok THEN [err |-> "Crypto", at |-> "parse", val |-> FALSE]
       ELSE IF v = "Ok" THEN [err |-> "Ok", at |-> "none", val |-> TRUE]
       ELSE IF v = "Password" THEN [err |-> "Ok", at |-> "none", val |-> FALSE]
       ELSE [err |-> "Crypto", at |-> "verify", val |-> FALSE]

\* Byte i of the key: byte i of the hash output, or zero past its end.
KeyByte(output, i) ==
    IF i <= output.len THEN [argon2 |-> output.argon2, at |-> i]
    ELSE [argon2 |-> <<>>, at |-> 0]

\* derive_key with a key buffer of half the length.
derive_key_16(password, salt) ==
    LET salt_string == encode_b64(salt) IN
    IF ~salt_string.ok
    THEN [err |-> "Crypto", at |-> "salt", val |-> <<>>]
    ELSE IF Len(salt) < MinSaltLen
    THEN [err |-> "Crypto", at |-> "argon2", val |-> <<>>]
    ELSE [err |-> "Ok", at |-> "none",
          val |-> [i \in 1..(KeyLen \div 2) |->
                      KeyByte(Argon2Output(password, salt_string.v), i)]]

\* PasswordManager::derive_key.
derive_key(password, salt) ==
    LET salt_string == encode_b64(salt) IN
    IF ~salt_string.ok
    THEN [err |-> "Crypto", at |-> "salt", val |-> <<>>]
    ELSE IF Len(salt) < MinSaltLen
    THEN [err |-> "Crypto", at |-> "argon2", val |-> <<>>]
    ELSE [err |-> "Ok", at |-> "none",
          val |-> [i \in 1..KeyLen |->
                      KeyByte(Argon2Output(password, salt_string.v), i)]]

HashPassword(password, salt) ==
    /\ LET r == hash_password(password, salt) IN
         out' = [op |-> "hash_password", err |-> r.err, at |-> r.at,
                 arg |-> password, val |-> r.val]
    /\ UNCHANGED <<sealed, origin, vault, session>>
    /\ UNCHANGED store_vars
    /\ UNCHANGED util_vars

VerifyPassword(password, hash) ==
    /\ LET r == verify_password(password, hash) IN
         out' = [op |-> "verify_password", err |-> r.err, at |-> r.at,
                 arg |-> [password |-> password, hash |-> hash],
                 val |-> r.val]
    /\ UNCHANGED <<sealed, origin, vault, session>>
    /\ UNCHANGED store_vars
    /\ UNCHANGED util_vars

DeriveKey(password, salt) ==
    /\ LET r == derive_key(password, salt) IN
         out' = [op |-> "derive_key", err |-> r.err, at |-> r.at,
                 arg |-> [password |-> password, salt |-> salt],
                 val |-> r.val]
    /\ UNCHANGED <<sealed, origin, vault, session>>
    /\ UNCHANGED store_vars
    /\ UNCHANGED util_vars

\* Passwords, the empty one among them.
Passwords == {<<>>, <<1>>, <<2>>}

\* SaltString::generate: the encoding of 16 random bytes.
GeneratedSaltLen == 16

SaltStrings == {B64(KeyOf(GeneratedSaltLen, 0)), B64(KeyOf(GeneratedSaltLen, 255))}

\* Encoded hashes hash_password returns.
HashStrings ==
    {hash_password(w, salt).val.password_hash :
        w \in Passwords, salt \in SaltStrings}

\* Other texts given to verify_password: the empty text, a text that is no
\* hash, an Argon2 hash without its output, and a hash of another algorithm.
OtherHashes ==
    {<<>>, <<"Argon2 ID">>,
     <<"argon2id", "v=19", "m=19456,t=2,p=1", B64(KeyOf(GeneratedSaltLen, 0))>>,
     <<"scrypt", "v=1", "ln=15,r=8,p=1", B64(KeyOf(GeneratedSaltLen, 0)),
       Argon2Output(<<1>>, B64(KeyOf(GeneratedSaltLen, 0)))>>}

\* Salts given to derive_key: what hash_password returned, the 32 bytes of
\* generate_salt, and salts of 0, 4 and 49 bytes.
DeriveSalts ==
    SaltStrings \cup {KeyOf(KeyLen, 7), <<>>, <<1, 2, 3, 4>>, KeyOf(49, 1)}

HasherCalls ==
    \/ \E w \in Passwords, salt \in SaltStrings : HashPassword(w, salt)
    \/ \E w \in Passwords, h \in HashStrings \cup OtherHashes :
          VerifyPassword(w, h)
    \/ \E w \in Passwords, salt \in DeriveSalts : DeriveKey(w, salt)

-----------------------------------------------------------------------------
(* The vault session. The repository has no code for it (the commands of   *)
(* src/main.rs are stubs): it is modelled from section 4.6 of the          *)
(* specification, over verify_password and derive_key as coded.            *)

\* A vault is made: the master password is hashed, and the hash and the
\* salt are kept.
CreateVault(master, salt) ==
    /\ ~vault.set
    /\ LET r == hash_password(master, salt) IN
         /\ vault' = [set |-> TRUE, salt |-> r.val.salt,
                      password_hash |-> r.val.password_hash,
                      master |-> master]
         /\ out' = [op |-> "create_vault", err |-> r.err, at |-> r.at,
                    arg |-> <<>>, val |-> <<>>]
    /\ UNCHANGED <<sealed, origin, session>>
    /\ UNCHANGED store_vars
    /\ UNCHANGED util_vars

\* Locked -> Unlocked: verify the candidate; on success derive the key
\* with the stored salt and hold it; on failure stay Locked and return
\* AuthenticationFailed.
Unlock(candidate) ==
    /\ vault.set
    /\ session.state = "Locked"
    /\ LET v == verify_password(candidate, vault.password_hash)
           k == derive_key(candidate, vault.salt)
       IN IF v.err # "Ok"
          THEN /\ out' = [op |-> "unlock", err |-> v.err, at |-> v.at,
                          arg |-> candidate, val |-> <<>>]
               /\ UNCHANGED session
          ELSE IF ~v.val
          THEN /\ out' = [op |-> "unlock", err |-> "AuthenticationFailed",
                          at |-> "verify", arg |-> candidate, val |-> <<>>]
               /\ UNCHANGED session
          ELSE IF k.err # "Ok"
          THEN /\ out' = [op |-> "unlock", err |-> k.err, at |-> k.at,
                          arg |-> candidate, val |-> <<>>]
               /\ UNCHANGED session
          ELSE /\ out' = [op |-> "unlock", err |-> "Ok", at |-> "none",
                          arg |-> candidate, val |-> <<>>]
               /\ session' = [state |-> "Unlocked", key |-> k.val]
    /\ UNCHANGED <<sealed, origin, vault>>
    /\ UNCHANGED store_vars
    /\ UNCHANGED util_vars

\* Unlocked -> Locked: the key is overwritten.
Lock ==
    /\ session.state = "Unlocked"
    /\ session' = Locked
    /\ out' = [op |-> "lock", err |-> "Ok", at |-> "none",
               arg |-> <<>>, val |-> <<>>]
    /\ UNCHANGED <<sealed, origin, vault>>
    /\ UNCHANGED store_vars
    /\ UNCHANGED util_vars

SessionCalls ==
    \/ \E master \in Passwords, salt \in SaltStrings : CreateVault(master, salt)
    \/ \E candidate \in Passwords : Unlock(candidate)
    \/ Lock

-----------------------------------------------------------------------------
(* A caller of the repository (src/database/models.rs). It holds one        *)
(* PasswordEntry, made by PasswordEntry::new or returned by a getter, and   *)
(* gives it to add_entry and update_entry. Utc::now() reads `clock`, which  *)
(* does not go back.                                                        *)

\* The clock runs from 0 to MaxClock.
MaxClock == 3

\* made: the calls of PasswordEntry::new so far, each drawing the next id.
\* op: how the entry held came about ("new", "touch", "get").
NoCaller ==
    [set |-> FALSE, entry |-> Entry(0, <<>>, <<>>, None, None, 0, 0),
     made |-> 0, op |-> "none"]

\* PasswordEntry::touch: self.updated_at = Utc::now().
touch_created(entry, now) == [entry EXCEPT !.created_at = now]

touch(entry, now) == [entry EXCEPT !.updated_at = now]

\* One second passes.
Tick ==
    /\ clock < MaxClock
    /\ clock' = clock + 1
    /\ UNCHANGED <<caller, generated, clipboard, threads, process>>
    /\ UNCHANGED store_vars
    /\ UNCHANGED crypto_vars

\* let entry = PasswordEntry::new(title, ...).
NewEntry(title) ==
    /\ caller.made < MaxEntries
    /\ caller' = [set |-> TRUE,
                  entry |-> PasswordEntry_new(caller.made + 1, title, <<65>>,
                                              <<42>>, None, None, clock),
                  made |-> caller.made + 1,
                  op |-> "new"]
    /\ UNCHANGED <<clock, generated, clipboard, threads, process>>
    /\ UNCHANGED store_vars
    /\ UNCHANGED crypto_vars

\* entry.touch().
Touch ==
    /\ caller.set
    /\ caller' = [caller EXCEPT !.entry = touch(caller.entry, clock),
                                !.op = "touch"]
    /\ UNCHANGED <<clock, generated, clipboard, threads, process>>
    /\ UNCHANGED store_vars
    /\ UNCHANGED crypto_vars

\* let entry = repo.get_entry_by_id(&id)?.0: the caller keeps the entry the
\* getter has just returned.
Keep ==
    /\ result.op = "get_entry_by_id"
    /\ result.err = "Ok"
    /\ caller' = [caller EXCEPT !.set = TRUE,
                                !.entry = result.val.entry,
                                !.op = "get"]
    /\ UNCHANGED <<clock, generated, clipboard, threads, process>>
    /\ UNCHANGED store_vars
    /\ UNCHANGED crypto_vars

\* repo.add_entry(&entry, ciphertext) and repo.update_entry(&entry,
\* ciphertext) of the entry held.
AddHeld(encrypted_password) ==
    /\ caller.set
    /\ AddEntry(caller.entry, encrypted_password, FALSE)

UpdateHeld(encrypted_password) ==
    /\ caller.set
    /\ UpdateEntry(caller.entry, encrypted_password, FALSE)

CallerTitles == {<<1>>}
Ciphertexts == {<<7>>}

CallerCalls ==
    \/ Tick
    \/ \E title \in CallerTitles : NewEntry(title)
    \/ Touch
    \/ Keep
    \/ \E c \in Ciphertexts : AddHeld(c)
    \/ \E c \in Ciphertexts : UpdateHeld(c)
    \/ \E id \in Uuids : GetEntryById(id, FALSE)

-----------------------------------------------------------------------------
(* The password generator (src/utils/generator.rs). A string is a sequence  *)
(* of character codes, all of them ASCII, so that its len() is its number   *)
(* of characters. thread_rng() is a stream of numbers fixed by a seed: the  *)
(* k-th number drawn below n is Draw(seed, k, n).                           *)

\* Lengths 0..MaxLength are configured.
MaxLength == 5

Lowercase == [i \in 1..26 |-> 96 + i]
Uppercase == [i \in 1..26 |-> 64 + i]
Numbers == [i \in 1..10 |-> 47 + i]

\* GeneratorConfig::default().symbol_set: !@#$%^&*()-_=+[]{}|;:,.<>?
DefaultSymbolSet ==
    <<33, 64, 35, 36, 37, 94, 38, 42, 40, 41, 45, 95, 61, 43, 91, 93, 123, 125,
      124, 59, 58, 44, 46, 60, 62, 63>>

DefaultLength == 16

GeneratorConfig(length, upper, lower, numbers, symbols, symbol_set) ==
    [length |-> length, include_uppercase |-> upper,
     include_lowercase |-> lower, include_numbers |-> numbers,
     include_symbols |-> symbols, symbol_set |-> symbol_set]

GeneratorConfig_default ==
    GeneratorConfig(DefaultLength, TRUE, TRUE, TRUE, TRUE, DefaultSymbolSet)

Draw(seed, k, n) == (seed * (k + 1) + k * k) % n

\* slice.choose(&mut rng): None on an empty slice.
Choose(slice, seed, k) ==
    IF slice = <<>> THEN None ELSE Some(slice[Draw(seed, k, Len(slice)) + 1])

\* charset: the enabled sets, pushed in this order.
Charset(config) ==
    (IF config.include_lowercase THEN Lowercase ELSE <<>>)
    \o (IF config.include_uppercase THEN Uppercase ELSE <<>>)
    \o (IF config.include_numbers THEN Numbers ELSE <<>>)
    \o (IF config.include_symbols THEN config.symbol_set ELSE <<>>)

\* "Ensure at least one character from each enabled set": the sets a
\* character is chosen of, in the order of the code.
EnabledSets(config) ==
    (IF config.include_lowercase THEN <<Lowercase>> ELSE <<>>)
    \o (IF config.include_uppercase THEN <<Uppercase>> ELSE <<>>)
    \o (IF config.include_numbers THEN <<Numbers>> ELSE <<>>)
    \o (IF config.include_symbols THEN <<config.symbol_set>> ELSE <<>>)

\* "Fill the rest randomly": while password.len() < length, push a
\* character of charset; k draws were made before.
RECURSIVE Fill(_, _, _, _, _)
Fill(password, charset, length, seed, k) ==
    IF Len(password) < length
    THEN Fill(Append(password, Choose(charset, seed, k).v), charset, length,
              seed, k + 1)
    ELSE password

Swap(s, a, b) == [s EXCEPT ![a] = s[b], ![b] = s[a]]

\* SliceRandom::shuffle: for i in (1..len).rev() { swap(i, gen_range(0..=i)) },
\* the positions counted here from 1.
RECURSIVE Shuffle(_, _, _, _)
Shuffle(s, i, seed, k) ==
    IF i < 2
    THEN s
    ELSE Shuffle(Swap(s, i, Draw(seed, k, i) + 1), i - 1, seed, k + 1)

PasswordGenerationErr == [err |-> "PasswordGeneration", val |-> <<>>]

\* unwrap() on None: the thread panics, and generate returns nothing.
Panic == [err |-> "panic", val |-> <<>>]

\* PasswordGenerator::generate.
generate(config, seed) ==
    LET charset == Charset(config)
        sets == EnabledSets(config)
        first == [i \in 1..Len(sets) |-> Choose(sets[i], seed, i)]
    IN IF config.length = 0 THEN PasswordGenerationErr
       ELSE IF charset = <<>> THEN PasswordGenerationErr
       ELSE IF \E i \in 1..Len(sets) : ~first[i].some THEN Panic
       ELSE LET password ==
                    Fill([i \in 1..Len(sets) |-> first[i].v], charset,
                         config.length, seed, Len(sets) + 1)
            IN [err |-> "Ok",
                val |-> Shuffle(password, Len(password), seed,
                                Len(password) + 1)]

\* generate_alphanumeric_password(length).
generate_alphanumeric_password(length, seed) ==
    generate(GeneratorConfig(length, TRUE, TRUE, TRUE, FALSE, <<>>), seed)

\* No call of the generator yet.
NoGenerated ==
    [op |-> "none", config |-> GeneratorConfig(0, FALSE, FALSE, FALSE, FALSE, <<>>),
     err |-> "none", val |-> <<>>]

Generated(op, config, r) ==
    [op |-> op, config |-> config, err |-> r.err, val |-> r.val]

\* PasswordGenerator::with_config(config).generate().
Generate(config, seed) ==
    /\ generated' = Generated("generate", config, generate(config, seed))
    /\ UNCHANGED <<clock, caller, clipboard, threads, process>>
    /\ UNCHANGED store_vars
    /\ UNCHANGED crypto_vars

GenerateAlphanumericPassword(length, seed) ==
    /\ generated' =
          Generated("generate_alphanumeric_password",
                    GeneratorConfig(length, TRUE, TRUE, TRUE, FALSE, <<>>),
                    generate_alphanumeric_password(length, seed))
    /\ UNCHANGED <<clock, caller, clipboard, threads, process>>
    /\ UNCHANGED store_vars
    /\ UNCHANGED crypto_vars

\* Commands::Generate { length, no_symbols, no_numbers }.
MainGenerate(length, no_symbols, no_numbers, seed) ==
    LET config == [GeneratorConfig_default EXCEPT
                      !.length = length,
                      !.include_symbols = ~no_symbols,
                      !.include_numbers = ~no_numbers]
    IN /\ generated' = Generated("main", config, generate(config, seed))
       /\ UNCHANGED <<clock, caller, clipboard, threads, process>>
       /\ UNCHANGED store_vars
       /\ UNCHANGED crypto_vars

Lengths == 0..MaxLength
SymbolSets == {<<>>, <<35>>, DefaultSymbolSet}
Seeds == {0, 1, 7}

GeneratorConfigs ==
    {GeneratorConfig(length, upper, lower, numbers, symbols, symbol_set) :
        length \in Lengths, upper \in BOOLEAN, lower \in BOOLEAN,
        numbers \in BOOLEAN, symbols \in BOOLEAN, symbol_set \in SymbolSets}

GeneratorCalls ==
    \/ \E config \in GeneratorConfigs, seed \in Seeds : Generate(config, seed)
    \/ \E length \in Lengths, seed \in Seeds :
          GenerateAlphanumericPassword(length, seed)
    \/ \E length \in Lengths, no_symbols \in BOOLEAN, no_numbers \in BOOLEAN,
          seed \in Seeds :
          MainGenerate(length, no_symbols, no_numbers, seed)

-----------------------------------------------------------------------------
(* The clipboard manager (src/utils/clipboard.rs). The system clipboard is  *)
(* shared by the process, its clear threads and the other applications. A   *)
(* call of copy that fails returns Error::Clipboard and changes nothing,    *)
(* and copy_with_timeout then returns before it spawns: it is no step.      *)

\* At most MaxThreads clear threads are asleep at once.
MaxThreads == 2

\* ClipboardManager::default(): 30 seconds; the model's clock counts them
\* as DefaultTimeout of its seconds.
DefaultTimeout == 2

\* by: the call that set the contents; at: when; timeout: the timeout of
\* the manager that set them, for copy_with_timeout, and of the manager
\* whose thread cleared them, for a thread.
Contents(text, by, at, timeout) ==
    [text |-> text, by |-> by, at |-> at, timeout |-> timeout]

EmptyClipboard == Contents(<<>>, "none", 0, 0)

\* std::thread::spawn(move || { sleep(timeout); clear_clipboard() }): the
\* thread sleeps until `wake` at least.
ClearThread(id, timeout) ==
    [id |-> id, wake |-> clock + timeout, timeout |-> timeout]

FreeThreadIds == (1..MaxThreads) \ {t.id : t \in threads}

\* ClipboardManager::copy.
Copy(text) ==
    /\ process = "running"
    /\ clipboard' = Contents(text, "copy", clock, 0)
    /\ UNCHANGED <<clock, caller, generated, threads, process>>
    /\ UNCHANGED store_vars
    /\ UNCHANGED crypto_vars

\* ClipboardManager::clear.
Clear ==
    /\ process = "running"
    /\ clipboard' = Contents(<<>>, "clear", clock, 0)
    /\ UNCHANGED <<clock, caller, generated, threads, process>>
    /\ UNCHANGED store_vars
    /\ UNCHANGED crypto_vars

\* ClipboardManager::copy_with_timeout, after the copy: the thread spawned.
copy_with_timeout(timeout) ==
    IF timeout > 0
    THEN {ClearThread(CHOOSE id \in FreeThreadIds : TRUE, timeout)}
    ELSE {}

\* ClipboardManager::new(timeout).copy_with_timeout(text). The clock of the
\* model ends at MaxClock: no thread is set to wake later.
CopyWithTimeout(text, timeout) ==
    /\ process = "running"
    /\ timeout > 0 => FreeThreadIds # {}
    /\ clock + timeout <= MaxClock
    /\ clipboard' = Contents(text, "copy_with_timeout", clock, timeout)
    /\ threads' = threads \cup copy_with_timeout(timeout)
    /\ UNCHANGED <<clock, caller, generated, process>>
    /\ UNCHANGED store_vars
    /\ UNCHANGED crypto_vars

\* copy_password(password), as Commands::Copy calls it.
CopyPassword(text) == CopyWithTimeout(text, DefaultTimeout)

\* A clear thread, its sleep over, runs clear_clipboard and ends.
ThreadWake(t) ==
    /\ process = "running"
    /\ t \in threads
    /\ t.wake <= clock
    /\ clipboard' = Contents(<<>>, "thread", clock, t.timeout)
    /\ threads' = threads \ {t}
    /\ UNCHANGED <<clock, caller, generated, process>>
    /\ UNCHANGED store_vars
    /\ UNCHANGED crypto_vars

\* main returns: the process ends, and its threads with it. The clipboard
\* is the system's and stays as it is.
Exit ==
    /\ process = "running"
    /\ process' = "exited"
    /\ threads' = {}
    /\ UNCHANGED <<clock, caller, generated, clipboard>>
    /\ UNCHANGED store_vars
    /\ UNCHANGED crypto_vars

\* The program is run again.
Start ==
    /\ process = "exited"
    /\ process' = "running"
    /\ UNCHANGED <<clock, caller, generated, clipboard, threads>>
    /\ UNCHANGED store_vars
    /\ UNCHANGED crypto_vars

\* Another application sets the clipboard.
OtherWriter(text) ==
    /\ clipboard' = Contents(text, "other", clock, 0)
    /\ UNCHANGED <<clock, caller, generated, threads, process>>
    /\ UNCHANGED store_vars
    /\ UNCHANGED crypto_vars

Texts == {<<100>>, <<101>>}
Timeouts == {0, 1, DefaultTimeout}
ThreadSlots == [id : 1..MaxThreads, wake : 0..MaxClock, timeout : Timeouts]

ClipboardCalls ==
    \/ Tick
    \/ \E text \in Texts : Copy(text)
    \/ Clear
    \/ \E text \in Texts, timeout \in Timeouts : CopyWithTimeout(text, timeout)
    \/ \E text \in Texts : CopyPassword(text)
    \/ \E t \in ThreadSlots : ThreadWake(t)
    \/ Exit
    \/ Start
    \/ \E text \in {<<102>>} : OtherWriter(text)

\* Nothing is held, generated or copied, and the process runs.
UtilInit ==
    /\ clock = 0
    /\ caller = NoCaller
    /\ generated = NoGenerated
    /\ clipboard = EmptyClipboard
    /\ threads = {}
    /\ process = "running"

-----------------------------------------------------------------------------
(* Specifications.                                                         *)

\* A database file that does not exist yet, and no process.
Init ==
    /\ pc = "closed"
    /\ idx = 0
    /\ current_version = 0
    /\ tx = NoTx
    /\ migrations_table = FALSE
    /\ ledger = {}
    /\ schema = {}
    /\ vault_metadata = {}
    /\ password_entries = <<>>
    /\ result = NoResult
    /\ run = NoRun
    /\ memo = NoMemo
    /\ CryptoInit
    /\ UtilInit

\* PasswordRepository::new and the end of the process.
Lifecycle ==
    \/ \E fault \in BOOLEAN : NewOpen(fault)
    \/ \E fault \in BOOLEAN : MigrateCreateTable(fault)
    \/ \E fault \in BOOLEAN : MigrateGetCurrentVersion(fault)
    \/ MigrateLoop
    \/ \E fault \in BOOLEAN : ApplyBegin(fault)
    \/ ApplyExecuteBatch
    \/ \E fault \in BOOLEAN : ApplyRecord(fault)
    \/ \E fault \in BOOLEAN : ApplyCommit(fault)
    \/ Close
    \/ Crash

MetadataCalls ==
    \/ \E salt \in Salts, hash \in Hashes, now \in Times, fault \in BOOLEAN :
          InitializeVault(salt, hash, now, fault)
    \/ \E fault \in BOOLEAN : IsInitialized(fault)
    \/ \E fault \in BOOLEAN : GetVaultMetadata(fault)
    \/ \E now \in Times, fault \in BOOLEAN : UpdateLastAccess(now, fault)

EntryCalls(inputs, remember) ==
    \/ \E x \in inputs, fault \in BOOLEAN :
          AddEntry(x.entry, x.encrypted_password, fault)
    \/ \E x \in inputs, fault \in BOOLEAN :
          UpdateEntry(x.entry, x.encrypted_password, fault)
    \/ \E id \in Uuids, fault \in BOOLEAN : GetEntryById(id, fault)
    \/ \E title \in TitlesOf(inputs), fault \in BOOLEAN, r \in remember :
          GetEntryByTitle(title, fault, r)
    \/ \E id \in Uuids, fault \in BOOLEAN : DeleteEntry(id, fault)
    \/ \E title \in TitlesOf(inputs), fault \in BOOLEAN :
          DeleteEntryByTitle(title, fault)

QueryCalls(queries) ==
    \/ \E fault \in BOOLEAN : ListEntries(fault)
    \/ \E query \in queries, fault \in BOOLEAN : SearchEntries(query, fault)

\* The whole life of a vault file: opened, migrated, used, closed, reopened.
Next ==
    \/ Lifecycle
    \/ MetadataCalls
    \/ EntryCalls(FewInputs, {FALSE})
    \/ QueryCalls(FewQueries)

Spec == Init /\ [][Next]_vars

\* The state PasswordRepository::new returns in on a new file.
InitOpened ==
    /\ pc = "ready"
    /\ idx = 0
    /\ current_version = 0
    /\ tx = NoTx
    /\ migrations_table = TRUE
    /\ ledger = DeclaredVersions
    /\ schema = AllObjects
    /\ vault_metadata = {}
    /\ password_entries = <<>>
    /\ result = Ret("new", NoVal, "Ok", "none", NoVal)
    /\ run = [NoRun EXCEPT !.attempted = DeclaredVersions,
                            !.applied = DeclaredVersions]
    /\ memo = NoMemo
    /\ CryptoInit
    /\ UtilInit

\* The entry methods of one open repository.
NextEntries == EntryCalls(AllInputs, {FALSE}) \/ QueryCalls(AllQueries)

SpecEntries == InitOpened /\ [][NextEntries]_vars

\* The same, on entries that share a title, remembering answers given.
NextLookup == EntryCalls(SameTitleInputs, BOOLEAN)

SpecLookup == InitOpened /\ [][NextLookup]_vars

\* The same, on entries and queries with letters, '_' and '%' in them.
NextSearch == EntryCalls(SearchInputs, {FALSE}) \/ QueryCalls(SearchQueries)

SpecSearch == InitOpened /\ [][NextSearch]_vars

\* The cipher, and payloads that are tampered with.
NextCrypto == CipherCalls

SpecCrypto == Init /\ [][NextCrypto]_vars

\* The password hasher and the session over it.
NextSession == HasherCalls \/ SessionCalls

SpecSession == Init /\ [][NextSession]_vars

\* The entry methods, given entries as PasswordEntry::new makes them of any
\* title.
NextTitles == EntryCalls(TitleInputs, {FALSE})

SpecTitles == InitOpened /\ [][NextTitles]_vars

\* A caller that makes entries, touches them and stores them, as time passes.
NextCaller == CallerCalls

SpecCaller == InitOpened /\ [][NextCaller]_vars

\* The password generator, on every configuration.
NextGenerator == GeneratorCalls

SpecGenerator == Init /\ [][NextGenerator]_vars

\* The clipboard manager. Time passes, and a thread whose sleep is over
\* runs, as long as the process lives.
NextClipboard == ClipboardCalls

SpecClipboard ==
    /\ Init
    /\ [][NextClipboard]_vars
    /\ WF_vars(Tick)
    /\ WF_vars(\E t \in ThreadSlots : ThreadWake(t))

\* InitOpened is a state of Spec.
OpenedOnNewFile ==
    (pc = "ready" /\ vault_metadata = {} /\ password_entries = <<>>
        /\ result.op = "new" /\ run.ledger = {} /\ ~run.faulted)
    => /\ idx = 0 /\ current_version = 0 /\ tx = NoTx
       /\ migrations_table /\ ledger = DeclaredVersions /\ schema = AllObjects
       /\ run.attempted = DeclaredVersions /\ run.applied = DeclaredVersions

-----------------------------------------------------------------------------
(* The migrator.                                                           *)

Objects(v) ==
    UNION {Range(MIGRATIONS[i].sql) :
             i \in {j \in 1..Len(MIGRATIONS) : MIGRATIONS[j].version = v}}

\* C1: in every state, whatever runs of migrate came before and wherever they
\* failed or died, the versions in the ledger are 1..k for some k up to the
\* number of declared migrations, and no run commits a version that was in
\* the ledger when the run began.
C1_LedgerIsPrefix ==
    /\ \E k \in 0..Len(MIGRATIONS) :
          /\ ledger = 1..k
          /\ ledger = {MIGRATIONS[i].version : i \in 1..k}
    /\ run.applied \cap run.ledger = {}

\* A run on a migrated file that called apply_migration again, for a version
\* of the ledger, and failed part-way.
C1_Witness ==
    /\ ledger = DeclaredVersions
    /\ run.ledger = DeclaredVersions
    /\ run.attempted \cap run.ledger # {}
    /\ result.op = "new" /\ result.err = "Database"

\* C2: in every state of the file, a failure or the death of the process at
\* any statement of apply_migration included, a declared version is in the
\* ledger exactly when the objects its batch creates are in the schema, and
\* none of them is there when the version is not in the ledger.
C2_MigrationAtomic ==
    \A v \in DeclaredVersions :
        /\ v \in ledger => Objects(v) \subseteq schema
        /\ v \notin ledger => Objects(v) \cap schema = {}

\* The process died between the INSERT into the ledger and the commit.
C2_Witness ==
    /\ run.died = "tx_commit"
    /\ ledger = {}
    /\ schema = {}

\* C3: during and after a run of migrate that began on a file with every
\* declared migration applied, the ledger and the schema are what they were,
\* the run commits no migration, and, the storage not having failed under the
\* run, it calls apply_migration for none and new() returns Ok.
C3_MigrateIdempotent ==
    (run.ledger = DeclaredVersions /\ run.schema = AllObjects)
    => /\ ledger = run.ledger
       /\ schema = run.schema
       /\ run.applied = {}
       /\ ~run.faulted => run.attempted = {}
       /\ (~run.faulted /\ result.op = "new")
             => (result.err = "Ok" /\ pc = "ready")

\* A second run on a migrated file has returned Ok.
C3_Witness ==
    /\ run.ledger = DeclaredVersions
    /\ run.schema = AllObjects
    /\ result.op = "new" /\ result.err = "Ok"
    /\ pc = "ready"

\* C4: when execute_batch of declared migration N has failed during migrate,
\* new() has returned Error::Database and no repository exists; every version
\* the run committed is below N and is in the ledger with its objects in the
\* schema; the ledger holds what it held before the run and what the run
\* committed, so the run recorded no version >= N; and apply_migration was
\* called for no version above N.
C4_FailedMigrationIsFatal ==
    run.failed # 0
    => /\ pc = "closed"
       /\ result = NewErr("execute_batch", run.failed)
       /\ \A v \in run.applied :
             v < run.failed /\ v \in ledger /\ Objects(v) \subseteq schema
       /\ ledger = run.ledger \cup run.applied
       /\ run.ledger \subseteq ledger
       /\ \A v \in run.attempted : v <= run.failed

\* execute_batch of migration 1 failed on a new file under a failure of the
\* storage, and nothing of the batch is left in the file.
C4_Witness ==
    /\ run.failed = 1
    /\ run.ledger = {}
    /\ run.faulted
    /\ result.at = "execute_batch"
    /\ schema = {}

-----------------------------------------------------------------------------
(* Vault metadata.                                                         *)

\* C5: a call of initialize_vault on a file that already holds the metadata
\* row, the storage not failing, returns Error::VaultAlreadyExists and leaves
\* the row as it was.
C5_SecondInitializeIsVaultAlreadyExists ==
    [][(/\ pc = "ready"
        /\ vault_metadata # {}
        /\ result'.op = "initialize_vault"
        /\ result'.at # "storage")
       => (/\ result'.err = "VaultAlreadyExists"
           /\ vault_metadata' = vault_metadata)]_vars

\* C6: right after new() on a new file is_initialized is false; right after
\* initialize_vault(salt, hash) returned Ok, is_initialized is true and
\* get_vault_metadata returns Ok with that salt, that hash and schema_version
\* 1; and is_initialized returns true exactly when the row is there.
C6_InitializeThenRead ==
    /\ (pc = "ready" /\ result.op = "new" /\ run.ledger = {})
          => ~is_initialized(vault_metadata)
    /\ (result.op = "initialize_vault" /\ result.err = "Ok")
          => LET m == get_vault_metadata(vault_metadata) IN
               /\ is_initialized(vault_metadata)
               /\ m.err = "Ok"
               /\ m.val.salt = result.arg.salt
               /\ m.val.password_hash = result.arg.password_hash
               /\ m.val.schema_version = 1
               /\ m.val.created_at = result.arg.now
               /\ m.val.last_access = result.arg.now
    /\ (result.op = "is_initialized" /\ result.err = "Ok")
          => (result.val <=> vault_metadata # {})

\* initialize_vault(salt = [1, 2, 3, 4], hash) has returned Ok.
C6_Witness ==
    /\ result.op = "initialize_vault"
    /\ result.err = "Ok"
    /\ result.arg.salt = <<1, 2, 3, 4>>
    /\ result.arg.password_hash = <<5, 6, 7, 8>>

Immutable(rows) ==
    {[salt |-> r.salt, password_hash |-> r.password_hash,
      created_at |-> r.created_at] : r \in rows}

ButLastAccess(rows) == {[r EXCEPT !.last_access = SqlNull] : r \in rows}

\* C7: once the metadata row is there, no step (a call of the repository, a
\* repeated initialize_vault, a run of new() and migrate, the end of the
\* process) changes its salt, password_hash or created_at; and a call of
\* update_last_access changes nothing in the file but last_access.
C7_SaltAndHashImmutable ==
    [][/\ vault_metadata # {} => Immutable(vault_metadata') = Immutable(vault_metadata)
       /\ result'.op = "update_last_access"
            => /\ ButLastAccess(vault_metadata') = ButLastAccess(vault_metadata)
               /\ <<migrations_table, ledger, schema, password_entries>>' =
                  <<migrations_table, ledger, schema, password_entries>>]_vars

\* update_last_access has moved last_access away from created_at.
C7_Witness ==
    /\ result.op = "update_last_access"
    /\ result.err = "Ok"
    /\ \E r \in vault_metadata : r.last_access # r.created_at

-----------------------------------------------------------------------------
(* Password entries.                                                       *)

\* What a getter returned is the entry given to add_entry or update_entry,
\* but for the password, with the ciphertext given.
Returns(r, entry, encrypted_password) ==
    /\ r.err = "Ok"
    /\ r.val.entry.id = entry.id
    /\ r.val.entry.title = entry.title
    /\ r.val.entry.username = entry.username
    /\ r.val.entry.url = entry.url
    /\ r.val.entry.notes = entry.notes
    /\ r.val.encrypted_password = encrypted_password

WithTitle(rows, title) == {i \in 1..Len(rows) : rows[i].title = SqlText(title)}

\* C8: right after add_entry(entry, ciphertext) returned Ok, get_entry_by_id of
\* the entry's id returns Ok with the entry's id, title, username, url and
\* notes and with the ciphertext, and so does get_entry_by_title of its title
\* when no other row has that title; and a getter that returns Ok returns an
\* entry with the id, or the title, it was asked for.
C8_AddThenGet ==
    /\ (result.op = "add_entry" /\ result.err = "Ok")
          => LET e == result.arg.entry
                 c == result.arg.encrypted_password
             IN /\ Returns(get_entry_by_id(password_entries, e.id), e, c)
                /\ Cardinality(WithTitle(password_entries, e.title)) = 1
                      => Returns(get_entry_by_title(password_entries, e.title),
                                 e, c)
    /\ (result.op = "get_entry_by_id" /\ result.err = "Ok")
          => result.val.entry.id = result.arg
    /\ (result.op = "get_entry_by_title" /\ result.err = "Ok")
          => result.val.entry.title = result.arg

\* An entry with an empty url and an empty ciphertext was added beside an
\* entry of another title.
C8_Witness ==
    /\ result.op = "add_entry"
    /\ result.err = "Ok"
    /\ Len(password_entries) = 2
    /\ result.arg.entry.url = Some(<<>>)
    /\ result.arg.encrypted_password = <<>>
    /\ Cardinality(WithTitle(password_entries, result.arg.entry.title)) = 1

\* C9: get_entry_by_title answers by the set of stored entries alone: asked
\* for a title on the same set of rows as an earlier call, it returns the
\* entry the earlier call returned, however the rows came to be there.
C9_SameRowsSameEntry ==
    (/\ result.op = "get_entry_by_title"
     /\ result.err = "Ok"
     /\ memo.set
     /\ memo.title = result.arg
     /\ memo.rows = Range(password_entries))
    => result.val = memo.val

\* C10: a call of update_entry that returns EntryNotFound was given an id no
\* row has and changes no row; one that returns Ok was given the id of a row,
\* and sets title, username, encrypted_password, url, notes and updated_at of
\* that row to the values given, keeps its id and created_at, and changes no
\* other row; no call of update_entry adds or removes a row.
C10_UpdateEntry ==
    [][result'.op = "update_entry"
       => LET old == password_entries
              new == password_entries'
          IN CASE result'.err = "EntryNotFound" ->
                    /\ new = old
                    /\ \A i \in 1..Len(old) :
                          old[i].id # SqlText(uuid_to_string(result'.arg))
               [] result'.err = "Ok" ->
                    LET e == result'.arg.entry
                        hit(i) == old[i].id = SqlText(uuid_to_string(e.id))
                    IN /\ Len(new) = Len(old)
                       /\ \E i \in 1..Len(old) : hit(i)
                       /\ \A i \in 1..Len(old) :
                            IF hit(i)
                            THEN new[i] =
                                   [id |-> old[i].id,
                                    created_at |-> old[i].created_at,
                                    title |-> SqlText(e.title),
                                    username |-> SqlText(e.username),
                                    encrypted_password |->
                                        SqlBlob(result'.arg.encrypted_password),
                                    url |-> IF e.url.some THEN SqlText(e.url.v)
                                            ELSE SqlNull,
                                    notes |-> IF e.notes.some
                                              THEN SqlText(e.notes.v)
                                              ELSE SqlNull,
                                    updated_at |->
                                        SqlText(to_rfc3339(e.updated_at))]
                            ELSE new[i] = old[i]
               [] OTHER -> new = old]_vars

\* update_entry has changed one of two rows, giving it another title, and the
\* row has kept a created_at that is not the one of the entry given.
C10_Witness ==
    /\ result.op = "update_entry"
    /\ result.err = "Ok"
    /\ Len(password_entries) = 2
    /\ \E i \in 1..2 :
          /\ password_entries[i].id = SqlText(uuid_to_string(result.arg.entry.id))
          /\ password_entries[i].created_at #
                SqlText(to_rfc3339(result.arg.entry.created_at))
          /\ password_entries[i].title = SqlText(result.arg.entry.title)

-----------------------------------------------------------------------------
\* A row of the table has this id, this title.
HasId(rows, id) ==
    \E i \in 1..Len(rows) : rows[i].id = SqlText(uuid_to_string(id))

HasTitle(rows, title) ==
    \E i \in 1..Len(rows) : rows[i].title = SqlText(title)

\* C11: a delete_entry(id) or delete_entry_by_title(title) that the storage
\* does not fail and that matches no row returns EntryNotFound and leaves
\* every row as it was; so does a delete that repeats, key for key, the
\* delete that has just returned Ok.
C11_DeleteMissingIsEntryNotFound ==
    [][/\ (result'.op = "delete_entry" /\ result'.at # "storage")
             => /\ ~HasId(password_entries, result'.arg)
                      => /\ result'.err = "EntryNotFound"
                         /\ password_entries' = password_entries
                /\ (result.op = "delete_entry" /\ result.err = "Ok"
                       /\ result.arg = result'.arg)
                      => /\ result'.err = "EntryNotFound"
                         /\ password_entries' = password_entries
       /\ (result'.op = "delete_entry_by_title" /\ result'.at # "storage")
             => /\ ~HasTitle(password_entries, result'.arg)
                      => /\ result'.err = "EntryNotFound"
                         /\ password_entries' = password_entries
                /\ (result.op = "delete_entry_by_title" /\ result.err = "Ok"
                       /\ result.arg = result'.arg)
                      => /\ result'.err = "EntryNotFound"
                         /\ password_entries' = password_entries
      ]_vars

\* delete_entry has returned EntryNotFound on a table that holds other rows.
C11_Witness ==
    /\ result.op = "delete_entry"
    /\ result.err = "EntryNotFound"
    /\ password_entries # <<>>
    /\ ~HasId(password_entries, result.arg)

-----------------------------------------------------------------------------
\* Entry e is what row holds, less the ciphertext: an id, a title, a
\* username, a url, notes and two timestamps, and an empty password.
Shows(e, row) ==
    /\ DOMAIN e = {"id", "title", "username", "password", "url", "notes",
                   "created_at", "updated_at"}
    /\ row.id = SqlText(uuid_to_string(e.id))
    /\ row.title = SqlText(e.title)
    /\ row.username = SqlText(e.username)
    /\ row.url = ToSqlOpt(e.url)
    /\ row.notes = ToSqlOpt(e.notes)
    /\ row.created_at = SqlText(to_rfc3339(e.created_at))
    /\ row.updated_at = SqlText(to_rfc3339(e.updated_at))
    /\ e.password = <<>>

\* The titles of a list of entries never descend.
TitleAscending(entries) ==
    \A j, k \in 1..Len(entries) :
       j < k => ~TextLess(entries[k].title, entries[j].title)

\* C12: list_entries, when the storage does not fail, returns Ok with as
\* many entries as there are rows, every row shown by exactly one of them,
\* the titles in ascending order, and every password field empty, after
\* whatever adds, updates and deletes came before.
C12_ListEntries ==
    (result.op = "list_entries" /\ result.at # "storage")
    => /\ result.err = "Ok"
       /\ Len(result.val) = Len(password_entries)
       /\ \A i \in 1..Len(password_entries) :
             Cardinality({j \in 1..Len(result.val) :
                             Shows(result.val[j], password_entries[i])}) = 1
       /\ TitleAscending(result.val)
       /\ \A j \in 1..Len(result.val) : result.val[j].password = <<>>

\* list_entries has returned as many entries as the model holds, the latest
\* row first, and that row has a ciphertext.
C12_Witness ==
    /\ result.op = "list_entries"
    /\ result.err = "Ok"
    /\ Len(result.val) = MaxEntries
    /\ Len(password_entries) = MaxEntries
    /\ Shows(result.val[1], password_entries[Len(password_entries)])
    /\ TextLess(result.val[1].title, result.val[Len(result.val)].title)
    /\ password_entries[Len(password_entries)].encrypted_password.v # <<>>

-----------------------------------------------------------------------------
\* query occurs in text as a substring, letters compared without regard to
\* case.
Contains(text, query) ==
    \E i \in 0..(Len(text) - Len(query)) :
       \A j \in 1..Len(query) : Fold(text[i + j]) = Fold(query[j])

\* query occurs in the title, the username, the url or the notes of row.
Mentions(row, query) ==
    \/ Contains(row.title.v, query)
    \/ Contains(row.username.v, query)
    \/ row.url.t = "text" /\ Contains(row.url.v, query)
    \/ row.notes.t = "text" /\ Contains(row.notes.v, query)

\* C13: search_entries(query), when the storage does not fail, returns Ok
\* with the titles in ascending order and with exactly the rows that query
\* occurs in as a substring of the title, the username, the url or the
\* notes, each once, whatever the characters of query.
C13_SearchIsSubstring ==
    (result.op = "search_entries" /\ result.at # "storage")
    => /\ result.err = "Ok"
       /\ TitleAscending(result.val)
       /\ \A i \in 1..Len(password_entries) :
             Cardinality({j \in 1..Len(result.val) :
                             Shows(result.val[j], password_entries[i])})
                = IF Mentions(password_entries[i], result.arg) THEN 1 ELSE 0
       /\ \A j \in 1..Len(result.val) :
             \E i \in 1..Len(password_entries) :
                Shows(result.val[j], password_entries[i])

-----------------------------------------------------------------------------
\* C14: once the storage has failed under a statement of new()/migrate, and
\* the process has not died, the run has stopped and new() has returned
\* Error::Database: it goes on to no later statement and never returns a
\* repository; and a repository call under which the storage failed has
\* returned Error::Database.
C14_StorageFailuresSurface ==
    /\ (run.faulted /\ run.died = "none")
          => /\ pc = "closed"
             /\ result.op = "new"
             /\ result.err = "Database"
    /\ result.at = "storage" => result.err = "Database"

-----------------------------------------------------------------------------
\* The payload held is the output of an encrypt call, as it was returned.
Intact == origin.made /\ ~origin.flipped /\ ~origin.cut

Decrypts == {"decrypt", "SecureData::decrypt"}

\* C15: decrypt, and SecureData::decrypt, of the untouched output of
\* encrypt(k, p), with the same 32-byte key k, returns Ok(p), for the empty
\* p as for any other.
C15_RoundTrip ==
    (out.op \in Decrypts /\ Intact /\ out.arg = origin.key)
    => /\ out.err = "Ok"
       /\ out.val = origin.plaintext

\* decrypt has returned the empty plaintext it was sealed from.
C15_Witness ==
    /\ out.op = "decrypt"
    /\ Intact
    /\ out.arg = origin.key
    /\ origin.plaintext = <<>>
    /\ out.err = "Ok"
    /\ out.val = <<>>

\* C16: decrypt with a 32-byte key other than the sealing key, or of a
\* payload one bit of which was inverted, fails with Error::Crypto at the
\* cipher and returns no plaintext; and decrypt returns Ok only on an
\* untouched payload under the key that sealed it.
C16_DecryptAuthenticates ==
    /\ (out.op \in Decrypts /\ origin.made /\ ~origin.cut
          /\ Len(out.arg) = KeyLen
          /\ (out.arg # origin.key \/ origin.flipped))
          => /\ out.err = "Crypto"
             /\ out.at = "aead"
             /\ out.val = <<>>
    /\ (out.op \in Decrypts /\ out.err = "Ok")
          => /\ Intact
             /\ out.arg = origin.key
             /\ out.val = origin.plaintext

\* decrypt under the sealing key has failed on a payload with one bit of
\* its nonce inverted.
C16_Witness ==
    /\ out.op = "decrypt"
    /\ origin.flipped
    /\ out.arg = origin.key
    /\ SubSeq(sealed, 1, NonceLen) # RawBytes(origin.nonce)
    /\ SubSeq(sealed, NonceLen + 1, Len(sealed))
          = aead_encrypt(origin.key, origin.nonce, origin.plaintext)
    /\ out.err = "Crypto"

\* C17: encrypt and decrypt with a key that is not 32 bytes long fail with
\* Error::Crypto; decrypt of fewer than 12 bytes fails with Error::Crypto;
\* encrypt with a 32-byte key returns Ok, and what it returns is the twelve
\* bytes of the nonce followed by the cipher's output for the plaintext.
C17_KeyAndLengthChecks ==
    /\ (out.op \in {"encrypt", "SecureData::new"} \cup Decrypts
          /\ Len(out.arg) # KeyLen)
          => out.err = "Crypto"
    /\ (out.op \in Decrypts /\ Len(sealed) < NonceLen)
          => out.err = "Crypto"
    /\ (out.op \in {"encrypt", "SecureData::new"} /\ Len(out.arg) = KeyLen)
          => out.err = "Ok"
    /\ (out.op = "encrypt" /\ out.err = "Ok")
          => /\ Len(out.val) = NonceLen + Len(origin.plaintext) + TagLen
             /\ SubSeq(out.val, 1, NonceLen) = RawBytes(origin.nonce)
             /\ SubSeq(out.val, NonceLen + 1, Len(out.val))
                   = aead_encrypt(out.arg, origin.nonce, origin.plaintext)

\* decrypt with a 32-byte key has failed on a payload of eleven bytes.
C17_Witness ==
    /\ out.op = "decrypt"
    /\ Len(out.arg) = KeyLen
    /\ Len(sealed) = NonceLen - 1
    /\ out.err = "Crypto"
    /\ out.at = "short"

-----------------------------------------------------------------------------
DerivedFrom(key, password, salt) ==
    \A i \in 1..Len(key) :
       key[i] = [argon2 |-> <<password, B64(salt)>>, at |-> i]

-----------------------------------------------------------------------------
\* C20: no row of password_entries has the empty title, whatever entries
\* PasswordEntry::new was asked to make and add_entry and update_entry were
\* given.
C20_NoEmptyTitle ==
    \A i \in 1..Len(password_entries) : password_entries[i].title.v # <<>>

-----------------------------------------------------------------------------
\* The instants a row was created and updated at.
CreatedAt(row) == parse_from_rfc3339(GetString(row.created_at).v).v
UpdatedAt(row) == parse_from_rfc3339(GetString(row.updated_at).v).v

-----------------------------------------------------------------------------
\* The characters of the sets a configuration enables.
EnabledChars(config) == Range(Charset(config))

\* C22: a password generate returns has exactly the configured length, and
\* every character of it is of an enabled set.
C22_GenerateLength ==
    generated.err = "Ok"
    => /\ Len(generated.val) = generated.config.length
       /\ Range(generated.val) \subseteq EnabledChars(generated.config)

\* C26: generate returns Ok or a PasswordGeneration error and never panics,
\* and it returns the error exactly when the length is 0 or the enabled sets
\* have no character.
C26_GenerateNeverPanics ==
    generated.op # "none"
    => /\ generated.err \in {"Ok", "PasswordGeneration"}
       /\ generated.err = "PasswordGeneration"
             <=> \/ generated.config.length = 0
                 \/ EnabledChars(generated.config) = {}

-----------------------------------------------------------------------------
\* C23: after copy_with_timeout with a timeout above 0 the clipboard is
\* cleared in the end, and no clear thread is ever started for a timeout
\* of 0.
C23_ClearedAfterTimeout ==
    /\ (clipboard.by = "copy_with_timeout" /\ clipboard.timeout > 0)
          ~> clipboard.text = <<>>
    /\ [](\A t \in threads : t.timeout > 0)

\* C24: a clear thread clears a text that copy_with_timeout placed only
\* once the timeout of that copy has elapsed, and never a text placed by
\* copy or by another application.
C24_ClearsOwnTextOnly ==
    [][(threads' # threads /\ clipboard'.by = "thread")
       => CASE clipboard.by = "copy_with_timeout" ->
                  /\ clipboard.timeout > 0
                  /\ clock >= clipboard.at + clipboard.timeout
            [] clipboard.by \in {"copy", "other"} -> FALSE
            [] OTHER -> TRUE]_vars

-----------------------------------------------------------------------------
\* C25: a call of delete_entry_by_title that returns Ok removes the one row
\* get_entry_by_title resolved the title to, and leaves every other row,
\* of that title or of another, stored.
C25_DeleteByTitleRemovesOne ==
    [][(result'.op = "delete_entry_by_title" /\ result'.err = "Ok")
       => LET old == password_entries
              found == get_entry_by_title(old, result'.arg)
              gone == {i \in 1..Len(old) :
                          old[i].id = SqlText(uuid_to_string(found.val.entry.id))}
          IN /\ found.err = "Ok"
             /\ password_entries'
                   = SelectSeq(old, LAMBDA r :
                        r.id # SqlText(uuid_to_string(found.val.entry.id)))
             /\ Cardinality(gone) = 1]_vars

=============================================================================
